---------------------------- MODULE Spec2Model ----------------------------
(***************************************************************************)
(* Knowledge-base retrieval and agent-response engine of the LLM support   *)
(* agent: the kb_chunks store (upsert / archive / delete / seed), the      *)
(* similarity search over it, and the agent orchestrator with its          *)
(* escalation policy, together with the chat client that consumes the      *)
(* agent's result.  The browser clients are modelled next to it: the auth  *)
(* store and request() of the ui application, and the WebSocket hook, the  *)
(* axios client, the AuthProvider and the generation forms of the frontend *)
(* application.                                                            *)
(*                                                                         *)
(* Texts are sequences of one-character strings so that normalisation,    *)
(* case folding and substring matching are computed, not assumed.         *)
(* Similarities and scores are in hundredths (0..100).                    *)
(***************************************************************************)
EXTENDS Integers, Sequences, FiniteSets, TLC

VARIABLES
    tenants,    \* ids present in the tenants table
    store,      \* rows of kb_chunks
    nextId,     \* next value of the kb_chunks id sequence (SERIAL)
    now,        \* wall clock, one tick per knowledge-base API call
    last,       \* the last knowledge-base API call and its reply
    pc,         \* state of the agent orchestration in flight
    req,        \* the answer(tenant_id, query) request in flight
    qvec,       \* embedding of the query, NoVector when embedding failed
    hits,       \* hits the retrieval step returned
    used,       \* hits the prompt composer kept within its budget
    attempts,   \* generation attempts that have failed so far
    content,    \* completion text, NullContent when generation failed
    result,     \* the AgentResult handed to the caller
    chat,       \* what the chat client shows for the request
    writers,    \* concurrent upsert requests, one per writer
    breaker,    \* circuit breaker of the language-model invoker
    calls,      \* concurrent generate calls going through the breaker
    clock,      \* time as the circuit breaker reads it
    beforeArchive, \* history: the call archive(archived = true) just
                \* answered and the store it found
    useAuth,    \* ui: state of the zustand auth store (token, apiBase)
    uiStorage,  \* ui: localStorage of the page (token, apiBase)
    fetches,    \* ui: calls of request() whose fetch is in flight
    uiLast,     \* ui: the last thing that happened in the page
    loggedOut,  \* history: logout was called and setApiBase not since
    mounted,    \* ws: "no" before the hook mounts, then "yes", then "gone"
    sockets,    \* ws: readyState of every WebSocket the hook has created
    wsRef,      \* ws: wsRef.current, 0 for null
    isConnected, \* ws: the isConnected state of the hook
    reconnectCountRef,   \* ws: reconnectCountRef.current
    reconnectTimeoutRef, \* ws: reconnectTimeoutRef.current, 0 for null
    timers,     \* ws: timeouts set and neither fired nor cleared
    nextTimer,  \* ws: id the next setTimeout returns
    disconnected, \* history: disconnect() was called and reconnect() not since
    autoConnects, \* history: connect() calls made by timers since a socket opened
    localStorage, \* frontend: the access_token and refresh_token items
    requests,   \* frontend: requests of the axios client, one per caller
    authProvider, \* frontend: state of the AuthProvider component
    navigating, \* frontend: window.location.href was set to /login and the
                \* page has not loaded yet
    validAccess,  \* auth backend: access tokens it accepts
    nextToken,  \* auth backend: the next token it issues
    unrecovered, \* history: a 401 for the stored credentials was given up
                \* on and no login has stored tokens since
    forms       \* frontend: the components that ask the agent to generate

kbVars == <<tenants, store, nextId, now, last>>

agentVars == <<pc, req, qvec, hits, used, attempts, content, result, chat>>

writerVars == <<writers>>

breakerVars == <<breaker, calls, clock>>

uiVars == <<useAuth, uiStorage, fetches, uiLast, loggedOut>>

\* the backend and its chat client
backendVars == <<kbVars, agentVars, writerVars, breakerVars, beforeArchive>>

wsVars == <<mounted, sockets, wsRef, isConnected, reconnectCountRef,
           reconnectTimeoutRef, timers, nextTimer, disconnected, autoConnects>>

axVars == <<localStorage, requests, authProvider, navigating,
           validAccess, nextToken, unrecovered>>

genVars == <<forms>>

\* the browser clients
frontendVars == <<uiVars, wsVars, axVars, genVars>>

vars == <<tenants, store, nextId, now, last,
          pc, req, qvec, hits, used, attempts, content, result, chat,
          writers, breaker, calls, clock, beforeArchive,
          useAuth, uiStorage, fetches, uiLast, loggedOut,
          mounted, sockets, wsRef, isConnected, reconnectCountRef,
          reconnectTimeoutRef, timers, nextTimer, disconnected, autoConnects,
          localStorage, requests, authProvider, navigating,
          validAccess, nextToken, unrecovered, forms>>

-----------------------------------------------------------------------------
(* Bounds of the model *)

MaxClock == 3       \* knowledge-base API calls in one behaviour
MaxRows == 3        \* rows of kb_chunks
MaxBatch == 1       \* chunks in one upsert request
MaxAgentWrites == 2 \* knowledge-base writes in a behaviour of the agent
GenRetries == 1     \* retries of the language-model invoker
MaxHistory == 2     \* sequential upserts before the concurrent ones
MaxTime == 6        \* time the circuit breaker is observed for

(* Program constants *)

DefaultTenant == 1      \* the tenant the entrypoint creates
DefaultLimit == 5       \* limit the client sends with a search
ConfidenceFloor == 50   \* "Low KB score < 0.5"
NullTime == 0           \* archived_at IS NULL

TenantIds == {1, 2}
Sources == {"faq", "docs"}
AnySource == "*"

-----------------------------------------------------------------------------
(* Text: normalisation, case folding, substring match *)

RawTexts == { <<"a">>, <<" ", "a">>, <<"b">> }

RECURSIVE CollapseWs(_)
CollapseWs(s) ==
    IF Len(s) <= 1 THEN s
    ELSE IF s[1] = " " /\ s[2] = " " THEN CollapseWs(Tail(s))
    ELSE <<s[1]>> \o CollapseWs(Tail(s))

Trim(s) ==
    LET a == IF Len(s) > 0 /\ s[1] = " " THEN Tail(s) ELSE s
    IN  IF Len(a) > 0 /\ a[Len(a)] = " " THEN SubSeq(a, 1, Len(a) - 1) ELSE a

\* trim, collapse whitespace
NormalizeText(s) == Trim(CollapseWs(s))

\* content hash of the application: SHA-256 of the normalised text
\* (collision-free on the texts of the model)
ContentHash(s) == <<"sha256", NormalizeText(s)>>

\* hash the entrypoint's seed computes: md5 of the literal text
SeedHash(s) == <<"md5", s>>

LowerChar(c) ==
    CASE c = "R" -> "r"
      [] c = "E" -> "e"
      [] c = "F" -> "f"
      [] c = "A" -> "a"
      [] c = "B" -> "b"
      [] OTHER -> c

ToLower(s) == [i \in 1..Len(s) |-> LowerChar(s[i])]

\* needle occurs in hay as a contiguous substring
Contains(hay, needle) ==
    \E i \in 1..(Len(hay) - Len(needle) + 1) :
        SubSeq(hay, i, i + Len(needle) - 1) = needle

-----------------------------------------------------------------------------
(* Embedding backend: a deterministic stub mapping known phrases to known  *)
(* vectors of the configured dimension, all of norm 5                      *)

EmbedDim == 3

HasChar(s, c) == \E i \in 1..Len(s) : s[i] = c

EmbedVector(text) ==
    LET t == ToLower(NormalizeText(text))
        a == HasChar(t, "a")
        b == HasChar(t, "b")
    IN  IF a /\ b THEN <<3, 4, 0>>
        ELSE IF a THEN <<5, 0, 0>>
        ELSE IF b THEN <<0, 5, 0>>
        ELSE <<0, 0, 5>>

Dot(u, v) == u[1] * v[1] + u[2] * v[2] + u[3] * v[3]

ISqrt(n) == CHOOSE r \in 0..n : r * r <= n /\ (r + 1) * (r + 1) > n

\* 1 - cosine_distance, in hundredths
Similarity(u, v) == (100 * Dot(u, v)) \div (ISqrt(Dot(u, u)) * ISqrt(Dot(v, v)))

NoVector == <<>>

-----------------------------------------------------------------------------
(* kb_chunks *)

\* pos is the stable key of the logical chunk inside its source (the
\* position in the upsert request); 0 for rows inserted without one.
\* embedding_vector is NoVector (NULL) until an embedding has been computed;
\* embedding_pending is the flag the upsert path keeps in the metadata.
NewRow(id, tenant, source, pos, text, hash, vector, version, t) ==
    [ id |-> id, tenant_id |-> tenant, source |-> source, pos |-> pos,
      chunk |-> text, chunk_hash |-> hash, embedding_vector |-> vector,
      embedding_pending |-> (vector = NoVector),
      version |-> version, is_current |-> TRUE,
      updated_at |-> t, archived_at |-> NullTime ]

\* UNIQUE(tenant_id, chunk_hash)
HashTaken(rows, tenant, hash) ==
    \E r \in rows : r.tenant_id = tenant /\ r.chunk_hash = hash

InsertIgnoringConflict(rows, row) == rows \cup {row}

\* INSERT ... ON CONFLICT (tenant_id, chunk_hash) DO NOTHING
InsertOnConflictDoNothing(rows, row) ==
    IF HashTaken(rows, row.tenant_id, row.chunk_hash) THEN rows
    ELSE rows \cup {row}

SameIdentity(r, tenant, source, pos) ==
    r.tenant_id = tenant /\ r.source = source /\ r.pos = pos /\ pos > 0

\* the logical chunk a row is a version of
Lineage(r) ==
    IF r.pos = 0 THEN <<r.tenant_id, "row", r.id>>
    ELSE <<r.tenant_id, r.source, r.pos>>

CurrentWithHash(rows, tenant, hash) ==
    \E r \in rows : r.tenant_id = tenant /\ r.chunk_hash = hash /\ r.is_current

CurrentOfIdentity(rows, tenant, source, pos) ==
    {r \in rows : SameIdentity(r, tenant, source, pos) /\ r.is_current}

MarkNotCurrent(rows, olds, t) ==
    {IF r \in olds THEN [r EXCEPT !.is_current = FALSE, !.updated_at = t] ELSE r
        : r \in rows}

\* the storage rule of the specification: embedding computed for a stored
\* chunk, NoVector when the backend failed (embedding pending)
EmbedOrPending(text, embOk) == IF embOk THEN EmbedVector(text) ELSE NoVector

\* One chunk of an upsert request.  acc = [rows, nextId, created, updated,
\* skipped]; embOk tells whether the embedding backend answered for it.
UpsertOne(acc, tenant, source, pos, text, embOk, t) ==
    LET hash == ContentHash(text)
        olds == CurrentOfIdentity(acc.rows, tenant, source, pos)
    IN  IF CurrentWithHash(acc.rows, tenant, hash)
        THEN [acc EXCEPT !.skipped = @ + 1]
        ELSE IF olds # {}
        THEN LET old == CHOOSE r \in olds : TRUE
                 marked == MarkNotCurrent(acc.rows, olds, t)
                 row == NewRow(acc.nextId, tenant, source, pos, text, hash,
                               EmbedOrPending(text, embOk), old.version + 1, t)
                 rows2 == InsertOnConflictDoNothing(marked, row)
             IN  IF rows2 = marked
                 THEN [acc EXCEPT !.rows = rows2, !.skipped = @ + 1]
                 ELSE [acc EXCEPT !.rows = rows2, !.nextId = @ + 1,
                                  !.updated = @ + 1]
        ELSE LET row == NewRow(acc.nextId, tenant, source, pos, text, hash,
                               EmbedOrPending(text, embOk), 1, t)
                 rows2 == InsertOnConflictDoNothing(acc.rows, row)
             IN  IF rows2 = acc.rows
                 THEN [acc EXCEPT !.skipped = @ + 1]
                 ELSE [acc EXCEPT !.rows = rows2, !.nextId = @ + 1,
                                  !.created = @ + 1]

RECURSIVE UpsertFrom(_, _, _, _, _, _, _)
UpsertFrom(acc, tenant, source, texts, embOk, i, t) ==
    IF i > Len(texts) THEN acc
    ELSE UpsertFrom(UpsertOne(acc, tenant, source, i, texts[i], embOk[i], t),
                    tenant, source, texts, embOk, i + 1, t)

\* upsert(tenant_id, source, chunks) on a store, for a known tenant
UpsertChunks(rows, nid, tenant, source, texts, embOk, t) ==
    UpsertFrom([rows |-> rows, nextId |-> nid, created |-> 0, updated |-> 0,
                skipped |-> 0], tenant, source, texts, embOk, 1, t)

\* selector of archive / delete: ids or source
SelMatches(r, tenant, sel) ==
    /\ r.tenant_id = tenant
    /\ IF sel.kind = "ids" THEN r.id \in sel.ids ELSE r.source = sel.source

Selectors(nid) ==
    {[kind |-> "ids", ids |-> {i}, source |-> AnySource] : i \in 1..nid}
    \cup {[kind |-> "source", ids |-> {}, source |-> s] : s \in Sources}

ArchiveRowsDroppingVersions(rows, tenant, sel, archived, t) ==
    {[r EXCEPT !.archived_at = IF archived THEN t ELSE NullTime]
        : r \in {x \in rows : SelMatches(x, tenant, sel)}}
    \cup {r \in rows : ~SelMatches(r, tenant, sel) /\ r.is_current}

ArchiveRows(rows, tenant, sel, archived, t) ==
    {IF SelMatches(r, tenant, sel)
        THEN [r EXCEPT !.archived_at = IF archived THEN t ELSE NullTime]
        ELSE r : r \in rows}

\* reindex: recompute the embedding of the selected rows; okIds are the
\* rows the embedding backend answered for, the others stay as they were
ReindexRows(rows, tenant, sel, okIds) ==
    {IF SelMatches(r, tenant, sel) /\ r.id \in okIds
        THEN [r EXCEPT !.embedding_vector = EmbedVector(r.chunk),
                       !.embedding_pending = FALSE]
        ELSE r : r \in rows}

DeleteRows(rows, tenant, sel) == {r \in rows : ~SelMatches(r, tenant, sel)}

-----------------------------------------------------------------------------
(* Similarity search *)

MaxLimit == 10

Filters == [source : Sources \cup {AnySource}, include_archived : BOOLEAN]

\* filters the model's client sends
ClientFilters == {f \in Filters : f.source = AnySource}

NoFilter == [source |-> AnySource, include_archived |-> FALSE]

TenantCurrentAnyTenant(r, tenant) == r.is_current = TRUE

\* WHERE tenant_id = $tenant_id AND is_current = TRUE
TenantCurrent(r, tenant) == r.tenant_id = tenant /\ r.is_current = TRUE

ArchivedAlwaysVisible(r, f) == TRUE

\* archived chunks are searched only on request
ArchivedVisible(r, f) == f.include_archived \/ r.archived_at = NullTime

\* a chunk whose embedding is pending has no vector to match
HasEmbedding(r) == r.embedding_vector # NoVector

\* rows without an embedding are never candidates
Candidates(rows, tenant, f) ==
    {r \in rows :
        /\ TenantCurrent(r, tenant)
        /\ HasEmbedding(r)
        /\ ArchivedVisible(r, f)
        /\ (f.source = AnySource \/ r.source = f.source)}

RowSimilarity(r, qv) == Similarity(r.embedding_vector, qv)

\* the ranking the specification describes: descending similarity, then
\* more recent updated_at, then lower id
RanksBefore(r1, r2, qv) ==
    LET s1 == RowSimilarity(r1, qv)
        s2 == RowSimilarity(r2, qv)
    IN  \/ s1 > s2
        \/ s1 = s2 /\ r1.updated_at > r2.updated_at
        \/ s1 = s2 /\ r1.updated_at = r2.updated_at /\ r1.id < r2.id

RECURSIVE Ranked(_, _)
Ranked(S, qv) ==
    IF S = {} THEN <<>>
    ELSE LET best == CHOOSE r \in S : \A o \in S \ {r} : RanksBefore(r, o, qv)
         IN  <<best>> \o Ranked(S \ {best}, qv)

\* out-of-range limits are clamped, never rejected
ClampLimit(l) == IF l < 1 THEN 1 ELSE IF l > MaxLimit THEN MaxLimit ELSE l

\* no row of the model carries a quality_score, so score = similarity
Hit(r, qv) ==
    [ chunk_id |-> r.id, source |-> r.source, text |-> r.chunk,
      similarity |-> RowSimilarity(r, qv), score |-> RowSimilarity(r, qv) ]

Take(s, n) == SubSeq(s, 1, IF n < Len(s) THEN n ELSE Len(s))

\* search(tenant_id, query_vector, limit, filters) with the hits in the
\* ranking the specification describes
Search(rows, tenant, qv, limit, f) ==
    LET ranked == Ranked(Candidates(rows, tenant, f), qv)
    IN  Take([i \in 1..Len(ranked) |-> Hit(ranked[i], qv)], ClampLimit(limit))

Queries == { <<"a">>, <<"a", " ", "b">>, <<"z">>,
             <<"R", "e", "f", "u", "n", "d", " ", "a">> }

\* queries the model's search client sends
ClientQueries == { <<"a", " ", "b">> }

\* search_knowledge(tenant_id, query, limit, filters)
SearchKnowledgeHits(rows, tenant, query, limit, f) ==
    Search(rows, tenant, EmbedVector(query), limit, f)

\* the sequences that hold every row of S once
Orders(S) ==
    {p \in [1..Cardinality(S) -> S] :
        \A i, j \in 1..Cardinality(S) : i # j => p[i] # p[j]}

\* ORDER BY embedding_vector <=> $query_vector: ascending distance, that
\* is descending similarity; the query names no further sort key, so rows
\* at the same distance come in whatever order the database produces
SimilarityOrders(S, qv) ==
    {p \in Orders(S) :
        \A i \in 1..(Cardinality(S) - 1) :
            RowSimilarity(p[i], qv) >= RowSimilarity(p[i + 1], qv)}

\* the results the vector search query can return
SearchResults(rows, tenant, qv, limit, f) ==
    {Take([i \in 1..Len(p) |-> Hit(p[i], qv)], ClampLimit(limit)) :
        p \in SimilarityOrders(Candidates(rows, tenant, f), qv)}

SearchKnowledgeResults(rows, tenant, query, limit, f) ==
    SearchResults(rows, tenant, EmbedVector(query), limit, f)

-----------------------------------------------------------------------------
(* Knowledge-base API *)

Reply(op, tenant, args, status, created, updated, skipped, count, hs) ==
    [ op |-> op, tenant |-> tenant, args |-> args, status |-> status,
      created |-> created, updated |-> updated, skipped |-> skipped,
      count |-> count, hits |-> hs ]

NoReply == Reply("none", 0, <<>>, "ok", 0, 0, 0, 0, <<>>)

Batches == UNION {[1..n -> RawTexts] : n \in 1..MaxBatch}

\* rows the entrypoint seeds for the default tenant
SeedChunks == << [source |-> "faq", chunk |-> <<"a">>] >>

RECURSIVE SeedFrom(_, _, _, _)
SeedFrom(rows, nid, i, t) ==
    IF i > Len(SeedChunks) THEN [rows |-> rows, nextId |-> nid]
    ELSE LET row == [NewRow(nid, DefaultTenant, SeedChunks[i].source, 0,
                            SeedChunks[i].chunk, SeedHash(SeedChunks[i].chunk),
                            NoVector, 1, t)
                           EXCEPT !.is_current = TRUE,
                                  !.embedding_pending = FALSE]
             rows2 == InsertOnConflictDoNothing(rows, row)
         IN  SeedFrom(rows2, IF rows2 = rows THEN nid ELSE nid + 1, i + 1, t)

NoSnapshot ==
    [taken |-> FALSE, undone |-> FALSE, tenant |-> 0, sel |-> <<>>, rows |-> {}]

\* the store an archive(archived = true) call found
Snapshot(tenant, sel, rows) ==
    [taken |-> TRUE, undone |-> FALSE, tenant |-> tenant, sel |-> sel,
     rows |-> rows]

\* history kept over an archive call: archive(true) records the store it
\* found, archive(false) with the same selector right after it marks the
\* record as undone
SnapshotAfter(snap, tenant, sel, archived, rows) ==
    IF archived THEN Snapshot(tenant, sel, rows)
    ELSE IF snap.taken /\ ~snap.undone /\ snap.tenant = tenant /\ snap.sel = sel
    THEN [snap EXCEPT !.undone = TRUE]
    ELSE NoSnapshot

\* INSERT INTO tenants ... (done by hand for every tenant but the default)
CreateTenant(t) ==
    /\ t \notin tenants
    /\ tenants' = tenants \cup {t}
    /\ UNCHANGED <<store, nextId, now, last>>
    /\ UNCHANGED agentVars
    /\ UNCHANGED <<writerVars, breakerVars>>
    /\ UNCHANGED frontendVars
    /\ UNCHANGED beforeArchive

\* the entrypoint runs again at every start of the container
SeedDefaultChunks ==
    /\ now < MaxClock
    /\ DefaultTenant \in tenants
    /\ Cardinality(store) + Len(SeedChunks) <= MaxRows
    /\ LET r == SeedFrom(store, nextId, 1, now + 1)
       IN  /\ store' = r.rows
           /\ nextId' = r.nextId
    /\ now' = now + 1
    /\ last' = Reply("seed", DefaultTenant, <<>>, "ok", 0, 0, 0, 0, <<>>)
    /\ UNCHANGED tenants
    /\ UNCHANGED agentVars
    /\ UNCHANGED <<writerVars, breakerVars>>
    /\ UNCHANGED frontendVars
    /\ beforeArchive' = NoSnapshot

TenantUnchecked(tenant, ts) == TRUE

\* kb_chunks.tenant_id REFERENCES tenants(id): a row is accepted only for a
\* tenant of the directory
TenantExists(tenant, ts) == tenant \in ts

\* "raises user-facing EmbeddingServiceErrors so /v1/kb/* endpoints return
\* informative 4xx responses"
EmbeddingServiceError == "embedding_service_error"

\* upsert: every chunk is embedded, then stored with its embedding; a
\* request whose embedding call fails is answered with the error
UpsertKnowledge(tenant, source, texts, embOk) ==
    /\ now < MaxClock
    /\ Cardinality(store) + Len(texts) <= MaxRows
    /\ now' = now + 1
    /\ IF ~TenantExists(tenant, tenants)
       THEN /\ last' = Reply("upsert", tenant, <<source, texts>>, "error",
                             0, 0, 0, 0, <<>>)
            /\ UNCHANGED <<store, nextId>>
       ELSE IF \E i \in 1..Len(texts) : ~embOk[i]
       THEN /\ last' = Reply("upsert", tenant, <<source, texts>>,
                             EmbeddingServiceError, 0, 0, 0, 0, <<>>)
            /\ UNCHANGED <<store, nextId>>
       ELSE LET r == UpsertChunks(store, nextId, tenant, source, texts, embOk,
                                  now + 1)
            IN  /\ store' = r.rows
                /\ nextId' = r.nextId
                /\ last' = Reply("upsert", tenant, <<source, texts>>, "ok",
                                 r.created, r.updated, r.skipped, 0, <<>>)
    /\ UNCHANGED tenants
    /\ UNCHANGED agentVars
    /\ UNCHANGED <<writerVars, breakerVars>>
    /\ UNCHANGED frontendVars
    /\ beforeArchive' = NoSnapshot

ArchiveKnowledge(tenant, sel, archived) ==
    /\ now < MaxClock
    /\ now' = now + 1
    /\ store' = ArchiveRows(store, tenant, sel, archived, now + 1)
    /\ last' = Reply("archive", tenant, <<sel, archived>>, "ok", 0, 0, 0,
                     Cardinality({r \in store : SelMatches(r, tenant, sel)}),
                     <<>>)
    /\ UNCHANGED <<tenants, nextId>>
    /\ UNCHANGED agentVars
    /\ UNCHANGED <<writerVars, breakerVars>>
    /\ UNCHANGED frontendVars
    /\ beforeArchive' = SnapshotAfter(beforeArchive, tenant, sel, archived,
                                      store)

BulkStatusNotFound(n) == IF n = 0 THEN "error" ELSE "ok"

\* a bulk operation that matched nothing is a zero-count success
BulkStatus(n) == "ok"

DeleteKnowledge(tenant, sel) ==
    /\ now < MaxClock
    /\ now' = now + 1
    /\ store' = DeleteRows(store, tenant, sel)
    /\ last' = Reply("delete", tenant, <<sel>>,
                     BulkStatus(Cardinality({r \in store :
                                               SelMatches(r, tenant, sel)})),
                     0, 0, 0,
                     Cardinality({r \in store : SelMatches(r, tenant, sel)}),
                     <<>>)
    /\ UNCHANGED <<tenants, nextId>>
    /\ UNCHANGED agentVars
    /\ UNCHANGED <<writerVars, breakerVars>>
    /\ UNCHANGED frontendVars
    /\ beforeArchive' = NoSnapshot

ReindexKnowledge(tenant, sel, okIds) ==
    /\ now < MaxClock
    /\ now' = now + 1
    /\ store' = ReindexRows(store, tenant, sel, okIds)
    /\ last' = Reply("reindex", tenant, <<sel>>, "ok", 0, 0, 0,
                     Cardinality({r \in store : SelMatches(r, tenant, sel)
                                                /\ r.id \in okIds}),
                     <<>>)
    /\ UNCHANGED <<tenants, nextId>>
    /\ UNCHANGED agentVars
    /\ UNCHANGED <<writerVars, breakerVars>>
    /\ UNCHANGED frontendVars
    /\ beforeArchive' = NoSnapshot

SearchKnowledge(tenant, query, limit, f) ==
    /\ \E hs \in SearchKnowledgeResults(store, tenant, query, limit, f) :
          last' = Reply("search", tenant, <<query, limit, f>>, "ok",
                        0, 0, 0, 0, hs)
    /\ UNCHANGED <<tenants, store, nextId, now>>
    /\ UNCHANGED agentVars
    /\ UNCHANGED <<writerVars, breakerVars>>
    /\ UNCHANGED frontendVars
    /\ UNCHANGED beforeArchive

-----------------------------------------------------------------------------
(* Agent orchestrator: Embedding -> Retrieving -> Composing -> Generating  *)
(* -> Deciding -> Done, and the chat client that shows its result          *)

NullContent == <<"NULL">>

ModelId == "qwen2.5:3b"

\* escalation keywords
TriggerTerms == { <<"r", "e", "f", "u", "n", "d">> }

\* completions the generation backend may return
Answers == { <<"o", "k">>, <<"n", "o", " ", "R", "e", "f", "u", "n", "d">> }

\* queries of answer(...): those of the search, and a blank one
AgentQueries == Queries \cup { <<" ">> }

ContextBudget == 2

NoReason == [code |-> "none", term |-> <<>>]
LowConfidence == [code |-> "low_confidence", term |-> <<>>]
GenerationFailed == [code |-> "generation_failed", term |-> <<>>]

\* the reason an escalation on a keyword carries, as the escalation event
\* of the WebSocket API shows it
TriggerKeyword(t) == [code |-> "User requested human agent", term |-> t]

TriggerTermsInCaseSensitive(s) == {t \in TriggerTerms : Contains(s, t)}

\* case-insensitive substring match against the keyword list
TriggerTermsIn(s) == {t \in TriggerTerms : Contains(ToLower(s), t)}

\* score of the best hit; no hits count as score 0
BestScore(hs) ==
    IF Len(hs) = 0 THEN 0
    ELSE CHOOSE m \in {hs[i].score : i \in 1..Len(hs)} :
            \A i \in 1..Len(hs) : hs[i].score <= m

LowConfidenceIgnoringNoHits(hs) ==
    Len(hs) > 0 /\ BestScore(hs) < ConfidenceFloor

\* "Low KB score < 0.5"
LowConfidenceHits(hs) == BestScore(hs) < ConfidenceFloor

EscalationReasonsIgnoringFailure(query, answer, hs) ==
    (IF LowConfidenceHits(hs) THEN {LowConfidence} ELSE {})
    \cup {TriggerKeyword(t) :
            t \in TriggerTermsIn(query) \cup TriggerTermsIn(answer)}

\* decide(query, answer_content, hits): the reasons that apply.  A failed
\* generation forces generation_failed; otherwise low confidence and every
\* matched trigger term apply, and the policy reports one of them.
EscalationReasons(query, answer, hs) ==
    IF answer = NullContent THEN {GenerationFailed}
    ELSE (IF LowConfidenceHits(hs) THEN {LowConfidence} ELSE {})
         \cup {TriggerKeyword(t) :
                 t \in TriggerTermsIn(query) \cup TriggerTermsIn(answer)}

\* compose: hits in ranking order, whole chunks only, until the character
\* budget is exhausted; the remaining hits are dropped
RECURSIVE KeepWithin(_, _)
KeepWithin(hs, budget) ==
    IF Len(hs) = 0 \/ Len(hs[1].text) > budget THEN <<>>
    ELSE <<hs[1]>> \o KeepWithin(Tail(hs), budget - Len(hs[1].text))

AgentResult(c, esc, reason, hs) ==
    [ content |-> c, escalate |-> esc, escalation_reason |-> reason,
      hits_used |-> hs, model_id |-> ModelId ]

NoReq == [tenant |-> 0, query |-> <<>>]
NoResult == [ content |-> NullContent, escalate |-> FALSE,
              escalation_reason |-> NoReason, hits_used |-> <<>>,
              model_id |-> "none" ]
NoChat == [content |-> <<>>, escalated |-> NoReason, error |-> FALSE]

\* a request the orchestrator accepts: known tenant, query not blank
WellFormed(r) == r.tenant \in tenants /\ NormalizeText(r.query) # <<>>

\* where the orchestrator goes when a step fails
PcAbortOnEmbeddingFailure == "Failed"

PcAfterEmbeddingFailure == "Composing"
PcAfterRetrievalFailure == "Composing"
PcAbortOnGenerationFailure(n) == IF n < GenRetries THEN "Generating" ELSE "Failed"

PcAfterGenerationFailure(n) == IF n < GenRetries THEN "Generating" ELSE "Deciding"

\* answer(tenant_id, query): the client sends the request
Answer(tenant, query) ==
    /\ pc = "Idle"
    /\ req' = [tenant |-> tenant, query |-> query]
    /\ pc' = IF WellFormed(req') THEN "Embedding" ELSE "Failed"
    /\ chat' = NoChat
    /\ UNCHANGED <<qvec, hits, used, attempts, content, result>>
    /\ UNCHANGED kbVars
    /\ UNCHANGED <<writerVars, breakerVars>>
    /\ UNCHANGED frontendVars
    /\ UNCHANGED beforeArchive

EmbedQuery(ok) ==
    /\ pc = "Embedding"
    /\ IF ok
       THEN qvec' = EmbedVector(req.query) /\ pc' = "Retrieving"
       ELSE qvec' = NoVector /\ pc' = PcAfterEmbeddingFailure
    /\ hits' = <<>>
    /\ UNCHANGED <<req, used, attempts, content, result, chat>>
    /\ UNCHANGED kbVars
    /\ UNCHANGED <<writerVars, breakerVars>>
    /\ UNCHANGED frontendVars
    /\ UNCHANGED beforeArchive

Retrieve(ok) ==
    /\ pc = "Retrieving"
    /\ IF ok
       THEN hits' \in SearchResults(store, req.tenant, qvec, DefaultLimit,
                                    NoFilter)
            /\ pc' = "Composing"
       ELSE hits' = <<>> /\ pc' = PcAfterRetrievalFailure
    /\ UNCHANGED <<req, qvec, used, attempts, content, result, chat>>
    /\ UNCHANGED kbVars
    /\ UNCHANGED <<writerVars, breakerVars>>
    /\ UNCHANGED frontendVars
    /\ UNCHANGED beforeArchive

Compose ==
    /\ pc = "Composing"
    /\ used' = KeepWithin(hits, ContextBudget)
    /\ attempts' = 0
    /\ pc' = "Generating"
    /\ UNCHANGED <<req, qvec, hits, content, result, chat>>
    /\ UNCHANGED kbVars
    /\ UNCHANGED <<writerVars, breakerVars>>
    /\ UNCHANGED frontendVars
    /\ UNCHANGED beforeArchive

GenerateOk(answer) ==
    /\ pc = "Generating"
    /\ content' = answer
    /\ pc' = "Deciding"
    /\ UNCHANGED <<req, qvec, hits, used, attempts, result, chat>>
    /\ UNCHANGED kbVars
    /\ UNCHANGED <<writerVars, breakerVars>>
    /\ UNCHANGED frontendVars
    /\ UNCHANGED beforeArchive

\* a failed call to the generation backend: retried, then given up
GenerateFail ==
    /\ pc = "Generating"
    /\ pc' = PcAfterGenerationFailure(attempts)
    /\ IF pc' = "Generating"
       THEN attempts' = attempts + 1 /\ UNCHANGED content
       ELSE content' = NullContent /\ UNCHANGED attempts
    /\ UNCHANGED <<req, qvec, hits, used, result, chat>>
    /\ UNCHANGED kbVars
    /\ UNCHANGED <<writerVars, breakerVars>>
    /\ UNCHANGED frontendVars
    /\ UNCHANGED beforeArchive

Decide ==
    /\ pc = "Deciding"
    /\ LET reasons == EscalationReasons(req.query, content, hits)
       IN  IF reasons = {}
           THEN result' = AgentResult(content, FALSE, NoReason, used)
           ELSE \E r \in reasons : result' = AgentResult(content, TRUE, r, used)
    /\ pc' = "Done"
    /\ UNCHANGED <<req, qvec, hits, used, attempts, content, chat>>
    /\ UNCHANGED kbVars
    /\ UNCHANGED <<writerVars, breakerVars>>
    /\ UNCHANGED frontendVars
    /\ UNCHANGED beforeArchive

ChatMessageHidingEscalated(res) ==
    [ content |-> IF res.escalate THEN <<>> ELSE res.content,
      escalated |-> IF res.escalate /\ res.escalation_reason # NoReason
                    THEN res.escalation_reason ELSE NoReason,
      error |-> FALSE ]

\* the assistant message the chat shows for a response
ChatMessage(res) ==
    [ content |-> res.content,
      escalated |-> IF res.escalate /\ res.escalation_reason # NoReason
                    THEN res.escalation_reason ELSE NoReason,
      error |-> FALSE ]

\* the chat client receives the response, or an error
ChatReceive ==
    /\ pc \in {"Done", "Failed"}
    /\ chat' = IF pc = "Done" THEN ChatMessage(result)
               ELSE [NoChat EXCEPT !.error = TRUE]
    /\ pc' = "Idle"
    /\ req' = NoReq /\ qvec' = NoVector /\ hits' = <<>> /\ used' = <<>>
    /\ attempts' = 0 /\ content' = NullContent /\ result' = NoResult
    /\ UNCHANGED kbVars
    /\ UNCHANGED <<writerVars, breakerVars>>
    /\ UNCHANGED frontendVars
    /\ UNCHANGED beforeArchive

-----------------------------------------------------------------------------
(* Concurrent upserts: each writer reads the store, then writes; the      *)
(* database enforces UNIQUE(tenant_id, chunk_hash) at the write            *)

Writers == {1, 2}

IdleWriter ==
    [ pc |-> "idle", tenant |-> 0, source |-> AnySource, text |-> <<>>,
      fresh |-> FALSE, novel |-> FALSE, plan |-> "none", olds |-> {}, status |-> "none",
      created |-> 0, updated |-> 0, skipped |-> 0 ]

NoWriters == [w \in Writers |-> IdleWriter]

\* what the upsert path decides from the rows it reads
UpsertPlan(rows, tenant, source, pos, text) ==
    IF CurrentWithHash(rows, tenant, ContentHash(text)) THEN "skip"
    ELSE IF CurrentOfIdentity(rows, tenant, source, pos) # {} THEN "update"
    ELSE "create"

\* UPDATE kb_chunks SET is_current = FALSE WHERE id IN (...)
MarkIdsNotCurrent(rows, ids, t) ==
    {IF r.id \in ids /\ r.is_current
        THEN [r EXCEPT !.is_current = FALSE, !.updated_at = t] ELSE r
        : r \in rows}

\* the writer's request arrives; fresh records whether the tenant held no
\* current row with the content hash at that moment, novel whether it held
\* no row with it at all
WBegin(w, source, text) ==
    /\ writers[w].pc = "idle"
    /\ writers' = [writers EXCEPT ![w] =
          [IdleWriter EXCEPT !.pc = "begun", !.tenant = DefaultTenant,
                             !.source = source, !.text = text,
                             !.fresh = ~CurrentWithHash(store, DefaultTenant,
                                                        ContentHash(text)),
                             !.novel = ~HashTaken(store, DefaultTenant,
                                                  ContentHash(text))]]
    /\ UNCHANGED <<kbVars, agentVars, breakerVars>>
    /\ UNCHANGED frontendVars
    /\ UNCHANGED beforeArchive

\* the writer reads the current rows and decides
WCheck(w) ==
    /\ writers[w].pc = "begun"
    /\ LET wr == writers[w]
       IN  writers' = [writers EXCEPT ![w] =
             [wr EXCEPT !.pc = "checked",
                        !.plan = UpsertPlan(store, wr.tenant, wr.source, 1,
                                            wr.text),
                        !.olds = CurrentOfIdentity(store, wr.tenant,
                                                   wr.source, 1)]]
    /\ UNCHANGED <<kbVars, agentVars, breakerVars>>
    /\ UNCHANGED frontendVars
    /\ UNCHANGED beforeArchive

\* the writer writes what it decided; a uniqueness conflict of its insert
\* is counted as skipped
WWrite(w) ==
    /\ writers[w].pc = "checked"
    /\ LET wr == writers[w]
           t == now + 1
           version == IF wr.plan = "update"
                      THEN (CHOOSE o \in wr.olds : TRUE).version + 1 ELSE 1
           base == IF wr.plan = "update"
                   THEN MarkIdsNotCurrent(store, {o.id : o \in wr.olds}, t)
                   ELSE store
           row == NewRow(nextId, wr.tenant, wr.source, 1, wr.text,
                         ContentHash(wr.text), EmbedVector(wr.text), version, t)
           rows2 == IF wr.plan = "skip" THEN store
                    ELSE InsertOnConflictDoNothing(base, row)
           inserted == row \in rows2
       IN  /\ store' = rows2
           /\ nextId' = IF inserted THEN nextId + 1 ELSE nextId
           /\ writers' = [writers EXCEPT ![w] =
                 [wr EXCEPT !.pc = "done", !.status = "ok",
                    !.created = IF inserted /\ wr.plan = "create" THEN 1 ELSE 0,
                    !.updated = IF inserted /\ wr.plan = "update" THEN 1 ELSE 0,
                    !.skipped = IF inserted THEN 0 ELSE 1]]
    /\ now' = now + 1
    /\ UNCHANGED <<tenants, last>>
    /\ UNCHANGED <<agentVars, breakerVars>>
    /\ UNCHANGED frontendVars
    /\ beforeArchive' = NoSnapshot

-----------------------------------------------------------------------------
(* ui application: the auth store, localStorage and request()               *)

\* null of JavaScript: no token, or no item under the key
Null == "null"

UiTokens == {"jwt1", "jwt2"}

\* VITE_API_BASE_URL of the build and window.location.origin
EnvApiBase == <<"e", "/">>
Origin == <<"o">>

\* b.replace(/\/$/, "")
StripSlash(b) ==
    IF Len(b) > 0 /\ b[Len(b)] = "/" THEN SubSeq(b, 1, Len(b) - 1) ELSE b

defaultApiBase ==
    IF Len(EnvApiBase) > 0 THEN StripSlash(EnvApiBase) ELSE StripSlash(Origin)

\* what the Settings page can hand to setApiBase: save() replaces an empty
\* input by "/api"
SettingsBase(b) == IF b = <<>> THEN <<"/", "a", "p", "i">> ELSE b

BaseInputs == { <<>>, <<"x">>, <<"x", "/">>, <<"/">> }

\* localStorage.getItem("apiBase") || defaultApiBase: a missing item and the
\* empty string both give the default
OrDefault(item) == IF item = Null \/ item = <<>> THEN defaultApiBase ELSE item

\* the store as the module builds it from localStorage when the page loads
saved(ls) == [token |-> ls.token, apiBase |-> OrDefault(ls.apiBase)]

EmptyStorage == [token |-> Null, apiBase |-> Null]

Fetchers == {1, 2}

IdleFetch == [pc |-> "idle", authorization |-> Null, base |-> <<>>]

NoFetches == [f \in Fetchers |-> IdleFetch]

Statuses == {200, 401, 500}

UiEvent(op, status) == [op |-> op, status |-> status]

ResetsOnNoStatus(status) == FALSE

\* if (res.status === 401) { reset(); ... throw }
ResetsOn(status) == status = 401

\* setToken of the store: what the login page calls with the access token
setToken(t) ==
    /\ uiStorage' = [uiStorage EXCEPT !.token = t]
    /\ useAuth' = [useAuth EXCEPT !.token = t]
    /\ uiLast' = UiEvent("setToken", 0)
    /\ UNCHANGED <<fetches, loggedOut>>
    /\ UNCHANGED <<backendVars, wsVars, axVars, genVars>>

setApiBase(b) ==
    LET normalized == StripSlash(b)
    IN  /\ uiStorage' = [uiStorage EXCEPT !.apiBase = normalized]
        /\ useAuth' = [useAuth EXCEPT !.apiBase = normalized]
        /\ uiLast' = UiEvent("setApiBase", 0)
        /\ loggedOut' = FALSE
        /\ UNCHANGED fetches
        /\ UNCHANGED <<backendVars, wsVars, axVars, genVars>>

\* reset of the store: removes the token item and sets token and apiBase
ResetStorage(ls) == [ls EXCEPT !.token = Null]
ResetStore(st) == [st EXCEPT !.token = Null, !.apiBase = defaultApiBase]

\* Layout.logout and the Logout button of the Settings page
logout ==
    /\ uiStorage' = ResetStorage(uiStorage)
    /\ useAuth' = ResetStore(useAuth)
    /\ uiLast' = UiEvent("logout", 0)
    /\ loggedOut' = TRUE
    /\ UNCHANGED fetches
    /\ UNCHANGED <<backendVars, wsVars, axVars, genVars>>

\* location.reload(): the module runs again, the fetches of the old page are
\* gone
reload ==
    /\ useAuth' = saved(uiStorage)
    /\ fetches' = NoFetches
    /\ uiLast' = UiEvent("reload", 0)
    /\ UNCHANGED <<uiStorage, loggedOut>>
    /\ UNCHANGED <<backendVars, wsVars, axVars, genVars>>

\* request(), up to the fetch: base and headers are read from the store
\* when the call is made
RequestSend(f) ==
    /\ fetches[f].pc = "idle"
    /\ fetches' = [fetches EXCEPT ![f] =
                     [pc |-> "sent", authorization |-> useAuth.token,
                      base |-> StripSlash(useAuth.apiBase)]]
    /\ uiLast' = UiEvent("fetch", 0)
    /\ UNCHANGED <<useAuth, uiStorage, loggedOut>>
    /\ UNCHANGED <<backendVars, wsVars, axVars, genVars>>

\* request(), from the response on: a 401 resets the store and throws
RequestResponse(f, status) ==
    /\ fetches[f].pc = "sent"
    /\ fetches' = [fetches EXCEPT ![f] = IdleFetch]
    /\ uiLast' = UiEvent("response", status)
    /\ IF ResetsOn(status)
       THEN /\ uiStorage' = ResetStorage(uiStorage)
            /\ useAuth' = ResetStore(useAuth)
       ELSE UNCHANGED <<useAuth, uiStorage>>
    /\ UNCHANGED loggedOut
    /\ UNCHANGED <<backendVars, wsVars, axVars, genVars>>

InitUi ==
    /\ uiStorage = EmptyStorage
    /\ useAuth = saved(EmptyStorage)
    /\ fetches = NoFetches
    /\ uiLast = UiEvent("load", 0)
    /\ loggedOut = FALSE

-----------------------------------------------------------------------------
(* frontend application: the useWebSocket hook                              *)

MaxSockets == 4

\* the reconnectAttempts option the component passes to the hook
reconnectAttempts == 2

SocketIds == 1..MaxSockets

NoSockets == [k \in SocketIds |-> "none"]

\* number of WebSockets created so far
Created(ss) == Cardinality({k \in SocketIds : ss[k] # "none"})

\* connect(): without access token nothing is opened; otherwise a new
\* WebSocket is created and kept in wsRef, whatever wsRef held
Connect(hasToken, ss, ref) ==
    IF hasToken
    THEN [sockets |-> [ss EXCEPT ![Created(ss) + 1] = "connecting"],
          wsRef |-> Created(ss) + 1]
    ELSE [sockets |-> ss, wsRef |-> ref]

\* ws.close(): the socket goes to CLOSING, its close event comes later
CloseSocket(ss, k) ==
    IF k # 0 /\ ss[k] \in {"connecting", "open"}
    THEN [ss EXCEPT ![k] = "closing"] ELSE ss

\* disconnect(): clears the timeout the ref holds, closes the socket the ref
\* holds
Disconnect ==
    /\ timers' = timers \ {reconnectTimeoutRef}
    /\ sockets' = CloseSocket(sockets, wsRef)
    /\ wsRef' = 0
    /\ isConnected' = FALSE
    /\ disconnected' = TRUE
    /\ UNCHANGED <<reconnectCountRef, reconnectTimeoutRef, nextTimer,
                   autoConnects>>

\* the effect of the hook: connect() when the component mounts
WsMount(hasToken) ==
    /\ mounted = "no"
    /\ mounted' = "yes"
    /\ LET c == Connect(hasToken, sockets, wsRef)
       IN  sockets' = c.sockets /\ wsRef' = c.wsRef
    /\ UNCHANGED <<isConnected, reconnectCountRef, reconnectTimeoutRef,
                   timers, nextTimer, disconnected, autoConnects>>
    /\ UNCHANGED <<backendVars, uiVars, axVars, genVars>>

\* the cleanup of the effect: disconnect() when the component unmounts
WsUnmount ==
    /\ mounted = "yes"
    /\ mounted' = "gone"
    /\ Disconnect
    /\ UNCHANGED <<backendVars, uiVars, axVars, genVars>>

\* disconnect() called by the component
WsDisconnect ==
    /\ mounted = "yes"
    /\ Disconnect
    /\ UNCHANGED mounted
    /\ UNCHANGED <<backendVars, uiVars, axVars, genVars>>

\* reconnect() called by the component: it is connect()
WsReconnect(hasToken) ==
    /\ mounted = "yes"
    /\ Created(sockets) < MaxSockets
    /\ LET c == Connect(hasToken, sockets, wsRef)
       IN  sockets' = c.sockets /\ wsRef' = c.wsRef
    /\ disconnected' = FALSE
    /\ UNCHANGED <<mounted, isConnected, reconnectCountRef,
                   reconnectTimeoutRef, timers, nextTimer, autoConnects>>
    /\ UNCHANGED <<backendVars, uiVars, axVars, genVars>>

\* ws.onopen
WsOnOpen(k) ==
    /\ sockets[k] = "connecting"
    /\ sockets' = [sockets EXCEPT ![k] = "open"]
    /\ isConnected' = TRUE
    /\ reconnectCountRef' = 0
    /\ autoConnects' = 0
    /\ UNCHANGED <<mounted, wsRef, reconnectTimeoutRef, timers, nextTimer,
                   disconnected>>
    /\ UNCHANGED <<backendVars, uiVars, axVars, genVars>>

\* if (reconnectCountRef.current < reconnectAttempts)
Reconnects(count) == count < reconnectAttempts

\* ws.onclose: the socket closed, by close() or by the network
WsOnClose(k) ==
    /\ sockets[k] \in {"connecting", "open", "closing"}
    /\ sockets' = [sockets EXCEPT ![k] = "closed"]
    /\ isConnected' = FALSE
    /\ wsRef' = 0
    /\ IF Reconnects(reconnectCountRef)
       THEN /\ reconnectCountRef' = reconnectCountRef + 1
            /\ timers' = timers \cup {nextTimer}
            /\ reconnectTimeoutRef' = nextTimer
            /\ nextTimer' = nextTimer + 1
       ELSE UNCHANGED <<reconnectCountRef, timers, reconnectTimeoutRef,
                        nextTimer>>
    /\ UNCHANGED <<mounted, disconnected, autoConnects>>
    /\ UNCHANGED <<backendVars, uiVars, axVars, genVars>>

\* the timeout set by onclose fires: connect()
WsTimeout(t, hasToken) ==
    /\ t \in timers
    /\ Created(sockets) < MaxSockets
    /\ timers' = timers \ {t}
    /\ LET c == Connect(hasToken, sockets, wsRef)
       IN  sockets' = c.sockets /\ wsRef' = c.wsRef
    /\ autoConnects' = autoConnects + 1
    /\ UNCHANGED <<mounted, isConnected, reconnectCountRef,
                   reconnectTimeoutRef, nextTimer, disconnected>>
    /\ UNCHANGED <<backendVars, uiVars, axVars, genVars>>

InitWs ==
    /\ mounted = "no"
    /\ sockets = NoSockets
    /\ wsRef = 0
    /\ isConnected = FALSE
    /\ reconnectCountRef = 0
    /\ reconnectTimeoutRef = 0
    /\ timers = {}
    /\ nextTimer = 1
    /\ disconnected = FALSE
    /\ autoConnects = 0

-----------------------------------------------------------------------------
(* frontend application: the axios client, its interceptors, AuthProvider   *)

MaxTokens == 4

\* null: no item under the key, no Authorization header
NoToken == 0

NoTokens == [access_token |-> NoToken, refresh_token |-> NoToken]

Components == {"c1", "c2"}

\* the callers of the client: two components, loadUser and login of the
\* AuthProvider
Slots == Components \cup {"loadUser", "login"}

IdleRequest ==
    [pc |-> "idle", url |-> "none", authorization |-> NoToken,
     sent_refresh |-> NoToken, retry |-> FALSE, refreshes |-> 0, retries |-> 0,
     status |-> 0]

NoRequests == [k \in Slots |-> IdleRequest]

\* the request is on its way or waits for the refresh call
InFlight(r) == r.pc \in {"sent", "refreshing"}

\* the promise of the request is settled; the record keeps the last status
\* and how often the interceptor refreshed and sent again
Settled(r, outcome, status) ==
    [IdleRequest EXCEPT !.pc = outcome, !.status = status,
                        !.refreshes = r.refreshes, !.retries = r.retries]

\* a request as it leaves the request interceptor: Authorization is the
\* access_token item
Request(url, ls) ==
    [IdleRequest EXCEPT !.pc = "sent", !.url = url,
                        !.authorization = ls.access_token]

\* setTokens(accessToken, refreshToken?)
setTokens(ls, access, refresh) ==
    [access_token |-> access,
     refresh_token |-> IF refresh # NoToken THEN refresh ELSE ls.refresh_token]

\* clearTokens()
clearTokens(ls) == NoTokens

\* the state of the AuthProvider when it mounts
MountedProvider(loading) ==
    [user |-> FALSE, loading |-> loading, error |-> FALSE, login |-> "idle",
     attempt |-> NoTokens]

\* tokens the auth backend issues with a login or a refresh
Grant(n, withRefresh) ==
    [access_token |-> n,
     refresh_token |-> IF withRefresh THEN n + 1 ELSE NoToken]

\* the backend's answer to a request other than login: 401 for a token it
\* does not accept
Authorized(r) == r.authorization \in validAccess

\* the promise of the slot's request is rejected: what its caller does to
\* localStorage and to the provider
RejectedStorage(k, ls) == IF k = "loadUser" THEN NoTokens ELSE ls

RejectedProvider(k, ap) ==
    CASE k = "loadUser" -> [ap EXCEPT !.loading = FALSE]
      [] k = "login" -> [ap EXCEPT !.error = TRUE, !.login = "rejected",
                                   !.loading = FALSE]
      [] OTHER -> ap

\* a component sends a request through the client
ComponentRequest(k) ==
    /\ ~navigating
    /\ ~InFlight(requests[k])
    /\ requests' = [requests EXCEPT ![k] = Request("api", localStorage)]
    /\ UNCHANGED <<localStorage, authProvider, navigating, validAccess,
                   nextToken, unrecovered>>
    /\ UNCHANGED <<backendVars, uiVars, wsVars, genVars>>

\* AuthProvider.login, up to the login call
Login ==
    /\ ~navigating
    /\ ~InFlight(requests["login"])
    /\ authProvider' = [authProvider EXCEPT !.error = FALSE, !.loading = TRUE,
                                            !.login = "pending",
                                            !.attempt = NoTokens]
    /\ requests' = [requests EXCEPT !["login"] = Request("login", localStorage)]
    /\ UNCHANGED <<localStorage, navigating, validAccess,
                   nextToken, unrecovered>>
    /\ UNCHANGED <<backendVars, uiVars, wsVars, genVars>>

\* AuthProvider.logout
Logout ==
    /\ ~navigating
    /\ localStorage' = clearTokens(localStorage)
    /\ authProvider' = [authProvider EXCEPT !.user = FALSE, !.error = FALSE]
    /\ UNCHANGED <<requests, navigating, validAccess,
                   nextToken, unrecovered>>
    /\ UNCHANGED <<backendVars, uiVars, wsVars, genVars>>

\* the login call is answered with tokens: login() stores them and calls
\* me()
LoginGranted(withRefresh) ==
    LET g == Grant(nextToken, withRefresh)
        ls == setTokens(localStorage, g.access_token, g.refresh_token)
    IN  /\ requests["login"].pc = "sent" /\ requests["login"].url = "login"
        /\ nextToken + 1 <= MaxTokens
        /\ nextToken' = nextToken + 2
        /\ validAccess' = validAccess \cup {g.access_token}
        /\ localStorage' = ls
        /\ authProvider' = [authProvider EXCEPT !.attempt = g]
        /\ requests' = [requests EXCEPT !["login"] = Request("me", ls)]
        /\ unrecovered' = FALSE
        /\ UNCHANGED navigating
        /\ UNCHANGED <<backendVars, uiVars, wsVars, genVars>>

\* a request other than the login call is answered 2xx
Succeeds(k) ==
    /\ requests[k].pc = "sent" /\ requests[k].url # "login"
    /\ Authorized(requests[k])
    /\ requests' = [requests EXCEPT ![k] = Settled(@, "resolved", 200)]
    /\ authProvider' =
          CASE k = "loadUser" ->
                  [authProvider EXCEPT !.user = TRUE, !.loading = FALSE]
            [] k = "login" ->
                  [authProvider EXCEPT !.user = TRUE, !.loading = FALSE,
                                       !.login = "resolved"]
            [] OTHER -> authProvider
    /\ UNCHANGED <<localStorage, navigating, validAccess,
                   nextToken, unrecovered>>
    /\ UNCHANGED <<backendVars, uiVars, wsVars, genVars>>

RefreshesAgain(r) == TRUE

\* error.response?.status === 401 && !originalRequest._retry
Refreshes(r) == ~r.retry

\* a request is answered 401: the response interceptor refreshes once, or
\* sends the browser to /login, or rejects
Unauthorized(k) ==
    LET r == requests[k]
    IN  /\ r.pc = "sent"
        /\ r.url = "login" \/ ~Authorized(r)
        /\ IF Refreshes(r) /\ localStorage.refresh_token # NoToken
           THEN /\ requests' =
                     [requests EXCEPT ![k] =
                         [r EXCEPT !.pc = "refreshing", !.retry = TRUE,
                                   !.status = 401,
                                   !.sent_refresh = localStorage.refresh_token,
                                   !.refreshes = @ + 1]]
                /\ UNCHANGED <<localStorage, authProvider, navigating,
                               unrecovered>>
           ELSE /\ requests' = [requests EXCEPT ![k] =
                                   Settled(@, "rejected", 401)]
                /\ localStorage' = RejectedStorage(k, localStorage)
                /\ authProvider' = RejectedProvider(k, authProvider)
                /\ navigating' = (navigating \/ Refreshes(r))
                /\ unrecovered' =
                      (unrecovered \/ (Refreshes(r) /\ r.authorization =
                                           localStorage.access_token))
        /\ UNCHANGED <<validAccess, nextToken>>
        /\ UNCHANGED <<backendVars, uiVars, wsVars, genVars>>

\* a request fails in another way (5xx, network error, timeout): rejected
Fails(k) ==
    /\ requests[k].pc = "sent"
    /\ requests' = [requests EXCEPT ![k] = Settled(@, "rejected", 500)]
    /\ localStorage' = RejectedStorage(k, localStorage)
    /\ authProvider' = RejectedProvider(k, authProvider)
    /\ UNCHANGED <<navigating, validAccess, nextToken,
                   unrecovered>>
    /\ UNCHANGED <<backendVars, uiVars, wsVars, genVars>>

\* POST /v1/auth/refresh is answered with tokens: they are stored and the
\* original request is sent again
RefreshGranted(k, withRefresh) ==
    LET r == requests[k]
        g == Grant(nextToken, withRefresh)
        ls == setTokens(localStorage, g.access_token, g.refresh_token)
    IN  /\ r.pc = "refreshing"
        /\ nextToken + 1 <= MaxTokens
        /\ nextToken' = nextToken + 2
        /\ validAccess' = validAccess \cup {g.access_token}
        /\ localStorage' = ls
        /\ requests' = [requests EXCEPT ![k] =
                           [r EXCEPT !.pc = "sent",
                                     !.authorization = ls.access_token,
                                     !.retries = @ + 1]]
        /\ UNCHANGED <<authProvider, navigating, unrecovered>>
        /\ UNCHANGED <<backendVars, uiVars, wsVars, genVars>>

\* POST /v1/auth/refresh fails (the refresh token is not accepted, or the
\* call does not get through): both tokens are removed, the browser is sent
\* to /login and the original request is rejected
RefreshFails(k) ==
    /\ requests[k].pc = "refreshing"
    /\ requests' = [requests EXCEPT ![k] = Settled(@, "rejected", 401)]
    /\ localStorage' = RejectedStorage(k, NoTokens)
    /\ authProvider' = RejectedProvider(k, authProvider)
    /\ navigating' = TRUE
    /\ unrecovered' = TRUE
    /\ UNCHANGED <<validAccess, nextToken>>
    /\ UNCHANGED <<backendVars, uiVars, wsVars, genVars>>

\* an access token expires or is revoked
Expire(t) ==
    /\ t \in validAccess
    /\ validAccess' = validAccess \ {t}
    /\ UNCHANGED <<localStorage, requests, authProvider, navigating,
                   nextToken, unrecovered>>
    /\ UNCHANGED <<backendVars, uiVars, wsVars, genVars>>

\* the page loads (after the redirect to /login, or reloaded by the user):
\* the requests of the old page are gone, AuthProvider mounts and loadUser
\* calls me() when an access token is stored
PageLoad ==
    LET token == localStorage.access_token
    IN  /\ navigating' = FALSE
        /\ authProvider' = MountedProvider(token # NoToken)
        /\ requests' = [NoRequests EXCEPT !["loadUser"] =
                           IF token # NoToken THEN Request("me", localStorage)
                           ELSE IdleRequest]
        /\ UNCHANGED <<localStorage, validAccess, nextToken,
                       unrecovered>>
        /\ UNCHANGED <<backendVars, uiVars, wsVars, genVars>>

InitAx ==
    /\ localStorage = NoTokens
    /\ requests = NoRequests
    /\ authProvider = MountedProvider(FALSE)
    /\ navigating = FALSE
    /\ validAccess = {}
    /\ nextToken = 1
    /\ unrecovered = FALSE

-----------------------------------------------------------------------------
(* frontend application: the components that ask the agent to generate      *)

MaxPending == 2      \* generation requests one component may have in flight

GenComponents == {"Chat", "Playground", "TicketDetail"}

\* what the user has typed when the submit is made
GenInputs == { <<>>, <<" ">>, <<"a">> }

\* !content.trim()
Blank(s) == \A i \in 1..Len(s) : s[i] = " "

\* loading: the isLoading / loading / generating state of the component;
\* seen: its value in the render whose handlers the page holds;
\* pending: agent generation requests in flight; step: where the handler is
IdleForm ==
    [loading |-> FALSE, seen |-> FALSE, pending |-> 0, step |-> "idle",
     last |-> "none"]

NoForms == [c \in GenComponents |-> IdleForm]

ChatProceedsWhileLoading(text, isLoading) == ~Blank(text)

\* Chat.sendMessage: if (!content.trim() || isLoading) return
ChatProceeds(text, isLoading) == ~(Blank(text) \/ isLoading)

\* Playground.handleSubmit: if (!question.trim() || loading) return
PlaygroundProceeds(question, loading) == ~(Blank(question) \/ loading)

\* TicketDetail.handleGenerateResponse: if (!id || generating) return
TicketDetailProceeds(hasId, generating) == ~(~hasId \/ generating)

Proceeds(c, text, hasId, seen) ==
    CASE c = "Chat" -> ChatProceeds(text, seen)
      [] c = "Playground" -> PlaygroundProceeds(text, seen)
      [] c = "TicketDetail" -> TicketDetailProceeds(hasId, seen)

\* a submit event: the handler runs with the state of the render it belongs
\* to; what it sets before its first await is rendered before the next
\* event is handled
GenSubmit(c, text, hasId) ==
    /\ forms[c].pending < MaxPending
    /\ forms' = [forms EXCEPT ![c] =
                   IF Proceeds(c, text, hasId, @.seen)
                   THEN [@ EXCEPT !.loading = TRUE, !.seen = TRUE,
                                  !.pending = @ + 1, !.step = "generating",
                                  !.last = "started"]
                   ELSE [@ EXCEPT !.last = "ignored"]]
    /\ UNCHANGED <<backendVars, uiVars, wsVars, axVars>>

\* the generation request returns: Chat and Playground are done; TicketDetail
\* goes on to fetch the messages when the request succeeded
GenReturns(c, ok) ==
    /\ forms[c].pending > 0
    /\ forms' = [forms EXCEPT ![c] =
                   IF c = "TicketDetail" /\ ok
                   THEN [@ EXCEPT !.pending = @ - 1, !.step = "messages"]
                   ELSE [@ EXCEPT !.pending = @ - 1, !.loading = FALSE,
                                  !.step = "idle"]]
    /\ UNCHANGED <<backendVars, uiVars, wsVars, axVars>>

\* TicketDetail: the messages request returns, the finally block runs
GenMessagesReturn ==
    /\ forms["TicketDetail"].step = "messages"
    /\ forms["TicketDetail"].pending = 0
    /\ forms' = [forms EXCEPT !["TicketDetail"] =
                   [@ EXCEPT !.loading = FALSE, !.step = "idle"]]
    /\ UNCHANGED <<backendVars, uiVars, wsVars, axVars>>

\* the component renders with the state set after an await
GenRender(c) ==
    /\ forms[c].seen # forms[c].loading
    /\ forms' = [forms EXCEPT ![c].seen = forms[c].loading]
    /\ UNCHANGED <<backendVars, uiVars, wsVars, axVars>>

InitGen == forms = NoForms

\* the browser clients as their pages load
InitFrontend ==
    /\ InitUi
    /\ InitWs
    /\ InitAx
    /\ InitGen

-----------------------------------------------------------------------------
(* Circuit breaker of the language-model invoker *)

FailureThreshold == 2   \* N: consecutive failures that open the breaker
FailureWindow == 2      \* time within which the N failures must fall
Cooldown == 2           \* time the open breaker fails fast

Callers == {1, 2}

\* failures counts the consecutive failures since first_failure_at;
\* recent holds the outcomes of the last backend calls, newest last
ClosedBreaker ==
    [ state |-> "closed", failures |-> 0, first_failure_at |-> 0,
      opened_at |-> 0, recent |-> <<>> ]

IdleCall == [pc |-> "idle", probe |-> FALSE, outcome |-> "none"]

NoCalls == [c \in Callers |-> IdleCall]

AdmissionWithoutCooldown(b, t) ==
    IF b.state = "closed" THEN "call"
    ELSE IF b.state = "open" THEN "probe"
    ELSE "reject"

AdmissionProbingFreely(b, t) ==
    IF b.state = "closed" THEN "call"
    ELSE IF b.state = "open" /\ t - b.opened_at < Cooldown THEN "reject"
    ELSE "probe"

\* what the breaker decides for a generate call arriving at time t: let it
\* through, let it through as the single probe, or fail fast
Admission(b, t) ==
    IF b.state = "closed" THEN "call"
    ELSE IF b.state = "open" /\ t - b.opened_at >= Cooldown THEN "probe"
    ELSE "reject"

\* the last FailureThreshold outcomes, with the new one appended
Remember(recent, t, ok) ==
    LET all == Append(recent, [at |-> t, ok |-> ok])
    IN  IF Len(all) > FailureThreshold THEN Tail(all) ELSE all

\* breaker after a backend call came back successfully
OnSuccess(b, probe, t) ==
    LET b2 == [b EXCEPT !.recent = Remember(b.recent, t, TRUE)]
    IN  IF probe THEN [b2 EXCEPT !.state = "closed", !.failures = 0]
        ELSE IF b.state = "closed" THEN [b2 EXCEPT !.failures = 0]
        ELSE b2

\* breaker after a backend call failed
OnFailure(b, probe, t) ==
    LET b2 == [b EXCEPT !.recent = Remember(b.recent, t, FALSE)]
        inWindow == b.failures > 0 /\ t - b.first_failure_at <= FailureWindow
        n == IF inWindow THEN b.failures + 1 ELSE 1
        first == IF inWindow THEN b.first_failure_at ELSE t
    IN  IF probe THEN [b2 EXCEPT !.state = "open", !.opened_at = t]
        ELSE IF b.state # "closed" THEN b2
        ELSE IF n >= FailureThreshold
        THEN [b2 EXCEPT !.state = "open", !.opened_at = t, !.failures = 0]
        ELSE [b2 EXCEPT !.failures = n, !.first_failure_at = first]

\* time passes
Tick ==
    /\ clock < MaxTime
    /\ clock' = clock + 1
    /\ UNCHANGED <<breaker, calls>>
    /\ UNCHANGED frontendVars
    /\ UNCHANGED <<kbVars, agentVars, writerVars, beforeArchive>>

\* a generate call arrives; admission and the transition to half-open are
\* one atomic step of the breaker
Generate(c) ==
    /\ calls[c].pc = "idle"
    /\ LET a == Admission(breaker, clock)
       IN  /\ calls' = [calls EXCEPT ![c] =
                 IF a = "reject"
                 THEN [pc |-> "done", probe |-> FALSE, outcome |-> "rejected"]
                 ELSE [pc |-> "calling", probe |-> (a = "probe"),
                       outcome |-> "none"]]
           /\ breaker' = IF a = "probe"
                         THEN [breaker EXCEPT !.state = "half_open"]
                         ELSE breaker
    /\ UNCHANGED clock
    /\ UNCHANGED frontendVars
    /\ UNCHANGED <<kbVars, agentVars, writerVars, beforeArchive>>

\* the generation backend answers a call that was let through
BackendReturns(c, ok) ==
    /\ calls[c].pc = "calling"
    /\ calls' = [calls EXCEPT ![c] =
          [pc |-> "done", probe |-> calls[c].probe,
           outcome |-> IF ok THEN "ok" ELSE "failed"]]
    /\ breaker' = IF ok THEN OnSuccess(breaker, calls[c].probe, clock)
                  ELSE OnFailure(breaker, calls[c].probe, clock)
    /\ UNCHANGED clock
    /\ UNCHANGED frontendVars
    /\ UNCHANGED <<kbVars, agentVars, writerVars, beforeArchive>>

\* the caller takes the outcome
Collect(c) ==
    /\ calls[c].pc = "done"
    /\ calls' = [calls EXCEPT ![c] = IdleCall]
    /\ UNCHANGED <<breaker, clock>>
    /\ UNCHANGED frontendVars
    /\ UNCHANGED <<kbVars, agentVars, writerVars, beforeArchive>>

\* the tables before any request
InitStore ==
    /\ tenants = {DefaultTenant}
    /\ store = {}
    /\ nextId = 1
    /\ now = 0
    /\ last = NoReply

\* the agent before any request
InitAgent ==
    /\ pc = "Idle"
    /\ req = NoReq
    /\ qvec = NoVector
    /\ hits = <<>>
    /\ used = <<>>
    /\ attempts = 0
    /\ content = NullContent
    /\ result = NoResult
    /\ chat = NoChat

Init ==
    /\ InitStore
    /\ InitAgent
    /\ writers = NoWriters
    /\ breaker = ClosedBreaker
    /\ calls = NoCalls
    /\ clock = 0
    /\ beforeArchive = NoSnapshot
    /\ InitFrontend

KBNext ==
    \/ \E t \in TenantIds : CreateTenant(t)
    \/ SeedDefaultChunks
    \/ \E t \in TenantIds, s \in Sources, texts \in Batches :
          \E embOk \in [1..Len(texts) -> BOOLEAN] :
             UpsertKnowledge(t, s, texts, embOk)
    \/ \E t \in TenantIds, sel \in Selectors(nextId), a \in BOOLEAN :
          ArchiveKnowledge(t, sel, a)
    \/ \E t \in TenantIds, sel \in Selectors(nextId) : DeleteKnowledge(t, sel)
    \/ \E t \in TenantIds, q \in ClientQueries, f \in ClientFilters :
          SearchKnowledge(t, q, DefaultLimit, f)

Next == KBNext

Spec == Init /\ [][Next]_vars

\* steps of the orchestrator itself
AgentStep ==
    \/ \E ok \in BOOLEAN : EmbedQuery(ok)
    \/ \E ok \in BOOLEAN : Retrieve(ok)
    \/ Compose
    \/ \E a \in Answers : GenerateOk(a)
    \/ GenerateFail
    \/ Decide

\* knowledge-base writes between two requests of the agent
AgentKBWrite ==
    /\ pc = "Idle"
    /\ now < MaxAgentWrites
    /\ \/ \E t \in TenantIds : CreateTenant(t)
       \/ \E t \in TenantIds, s \in Sources, texts \in Batches :
             \E embOk \in [1..Len(texts) -> BOOLEAN] :
                UpsertKnowledge(t, s, texts, embOk)

AgentNext ==
    \/ \E t \in TenantIds, q \in AgentQueries : Answer(t, q)
    \/ AgentStep
    \/ ChatReceive
    \/ AgentKBWrite

AgentSpec == Init /\ [][AgentNext]_vars

\* the orchestrator keeps running a request it has accepted
FairAgentSpec == AgentSpec /\ WF_vars(AgentStep)

\* stores a few sequential upserts of the default tenant have produced
RECURSIVE StoresAfter(_)
StoresAfter(n) ==
    IF n = 0 THEN { [rows |-> {}, nextId |-> 1, now |-> 0] }
    ELSE LET prev == StoresAfter(n - 1)
         IN  prev \cup
             { LET r == UpsertChunks(st.rows, st.nextId, DefaultTenant, s,
                                     <<x>>, <<TRUE>>, st.now + 1)
               IN  [rows |-> r.rows, nextId |-> r.nextId, now |-> st.now + 1]
               : st \in prev, s \in Sources, x \in RawTexts }

WriterInit ==
    /\ tenants = {DefaultTenant}
    /\ \E st \in StoresAfter(MaxHistory) :
          store = st.rows /\ nextId = st.nextId /\ now = st.now
    /\ last = NoReply
    /\ InitAgent
    /\ writers = NoWriters
    /\ breaker = ClosedBreaker
    /\ calls = NoCalls
    /\ clock = 0
    /\ beforeArchive = NoSnapshot
    /\ InitFrontend

\* a store with some history, seen from the moment a maintenance session
\* starts: the clock reads 0 and the rows were written before
ArchiveInit ==
    /\ tenants = {DefaultTenant}
    /\ \E st \in StoresAfter(MaxHistory) :
          /\ store = {[r EXCEPT !.updated_at = @ - st.now] : r \in st.rows}
          /\ nextId = st.nextId
    /\ now = 0
    /\ last = NoReply
    /\ InitAgent
    /\ writers = NoWriters
    /\ breaker = ClosedBreaker
    /\ calls = NoCalls
    /\ clock = 0
    /\ beforeArchive = NoSnapshot
    /\ InitFrontend

ArchiveNext ==
    \/ \E sel \in Selectors(nextId), a \in BOOLEAN :
          ArchiveKnowledge(DefaultTenant, sel, a)
    \/ \E sel \in Selectors(nextId) : DeleteKnowledge(DefaultTenant, sel)
    \/ \E q \in ClientQueries, f \in ClientFilters :
          SearchKnowledge(DefaultTenant, q, DefaultLimit, f)

\* archive, delete and search calls on a store with some history
ArchiveSpec == ArchiveInit /\ [][ArchiveNext]_vars

PendingNext ==
    \/ \E s \in Sources, texts \in Batches :
          \E embOk \in [1..Len(texts) -> BOOLEAN] :
             UpsertKnowledge(DefaultTenant, s, texts, embOk)
    \/ SeedDefaultChunks
    \/ \E sel \in Selectors(nextId), okIds \in SUBSET (1..(nextId - 1)) :
          ReindexKnowledge(DefaultTenant, sel, okIds)
    \/ \E q \in ClientQueries, f \in ClientFilters :
          SearchKnowledge(DefaultTenant, q, DefaultLimit, f)

\* upserts whose embedding may fail, the seed, reindex calls and searches
PendingSpec == Init /\ [][PendingNext]_vars

BreakerNext ==
    \/ Tick
    \/ \E c \in Callers : Generate(c)
    \/ \E c \in Callers, ok \in BOOLEAN : BackendReturns(c, ok)
    \/ \E c \in Callers : Collect(c)

\* concurrent generate calls through the circuit breaker
BreakerSpec == Init /\ [][BreakerNext]_vars

RankNext ==
    \/ \E s \in Sources, texts \in Batches \cup {<< <<"a">>, <<"b">> >>} :
          UpsertKnowledge(DefaultTenant, s, texts, [i \in 1..Len(texts) |-> TRUE])
    \/ \E q \in Queries :
          SearchKnowledge(DefaultTenant, q, DefaultLimit, NoFilter)

\* upserts and searches of the default tenant, with every query
RankSpec == Init /\ [][RankNext]_vars

UiNext ==
    \/ \E t \in UiTokens : setToken(t)
    \/ \E b \in BaseInputs : setApiBase(SettingsBase(b))
    \/ logout
    \/ reload
    \/ \E f \in Fetchers : RequestSend(f)
    \/ \E f \in Fetchers, status \in Statuses : RequestResponse(f, status)

\* the ui page: logins, settings, logouts, reloads and requests in flight
UiSpec == Init /\ [][UiNext]_vars

WsNext ==
    \/ \E hasToken \in BOOLEAN : WsMount(hasToken)
    \/ WsUnmount
    \/ WsDisconnect
    \/ \E hasToken \in BOOLEAN : WsReconnect(hasToken)
    \/ \E k \in SocketIds : WsOnOpen(k)
    \/ \E k \in SocketIds : WsOnClose(k)
    \/ \E t \in 1..MaxSockets, hasToken \in BOOLEAN : WsTimeout(t, hasToken)

\* one useWebSocket hook from mount to after its unmount
WsSpec == Init /\ [][WsNext]_vars

AxNext ==
    \/ \E k \in Components : ComponentRequest(k)
    \/ Login
    \/ Logout
    \/ \E withRefresh \in BOOLEAN : LoginGranted(withRefresh)
    \/ \E k \in Slots : Succeeds(k)
    \/ \E k \in Slots : Unauthorized(k)
    \/ \E k \in Slots : Fails(k)
    \/ \E k \in Slots, withRefresh \in BOOLEAN : RefreshGranted(k, withRefresh)
    \/ \E k \in Slots : RefreshFails(k)
    \/ \E t \in 1..MaxTokens : Expire(t)
    \/ PageLoad

\* the frontend page: logins, component requests, the auth backend's answers
\* and page loads
AxSpec == Init /\ [][AxNext]_vars

GenNext ==
    \/ \E c \in GenComponents, text \in GenInputs, hasId \in BOOLEAN :
          GenSubmit(c, text, hasId)
    \/ \E c \in GenComponents, ok \in BOOLEAN : GenReturns(c, ok)
    \/ GenMessagesReturn
    \/ \E c \in GenComponents : GenRender(c)

\* the chat, the playground and the ticket page, each with its submits
GenSpec == Init /\ [][GenNext]_vars

WriterNext ==
    \/ \E w \in Writers, s \in Sources, x \in RawTexts : WBegin(w, s, x)
    \/ \E w \in Writers : WCheck(w)
    \/ \E w \in Writers : WWrite(w)

\* two writers upserting concurrently into a store with some history
WriterSpec == WriterInit /\ [][WriterNext]_vars

-----------------------------------------------------------------------------
(* Properties of the knowledge base *)

RowOf(rows, id) == CHOOSE r \in rows : r.id = id

HitsOwnedBy(rows, hs, tenant) ==
    \A i \in 1..Len(hs) :
        \E r \in rows : r.id = hs[i].chunk_id /\ r.tenant_id = tenant

\* C1: every hit of search_knowledge belongs to the tenant the search was
\* called with: for every search the client has made, and for every query
\* and filter on every store a write has produced (a search leaves the store
\* as it was, so the stores seen after a search are covered by the second
\* conjunct in the state before it).
TenantIsolation ==
    /\ last.op = "search" => HitsOwnedBy(store, last.hits, last.tenant)
    /\ last.op # "search" =>
          \A t \in TenantIds, q \in Queries, f \in Filters :
             HitsOwnedBy(store,
                         SearchKnowledgeHits(store, t, q, DefaultLimit, f), t)

\* a search for tenant 2 has returned hits while tenant 1 holds a current,
\* embedded, non-archived chunk
TenantIsolationWitness ==
    /\ last.op = "search" /\ last.tenant = 2 /\ Len(last.hits) > 0
    /\ \E r \in store : /\ r.tenant_id = 1 /\ r.is_current
                        /\ r.embedding_vector # NoVector
                        /\ r.archived_at = NullTime

\* a knowledge-base call of the given kind has just been answered
Answered(op) == last'.op = op /\ now' = now + 1

\* C8: every chunk lineage that still has a row has exactly one version
\* with is_current = true.
OneCurrentPerLineage ==
    \A r \in store :
        Cardinality({o \in store : Lineage(o) = Lineage(r) /\ o.is_current}) = 1

\* C9: an upsert of changed text for a logical chunk that has a current
\* version bumps the version, flips the prior version to not current, counts
\* as updated, and leaves the new text as the only text any search returns
\* for that identity.
VersioningOnChange ==
    [][ (Answered("upsert") /\ last'.status = "ok") =>
          \A i \in 1..Len(last'.args[2]) :
             LET src == last'.args[1]
                 text == last'.args[2][i]
                 olds == CurrentOfIdentity(store, last'.tenant, src, i)
             IN  (olds # {} /\ \A o \in olds : o.chunk_hash # ContentHash(text))
                 =>
                 /\ last'.updated >= 1
                 /\ \A o \in olds :
                       \E o2 \in store' : o2.id = o.id /\ ~o2.is_current
                 /\ \E n \in store' :
                       /\ SameIdentity(n, last'.tenant, src, i)
                       /\ n.is_current /\ n.chunk = text
                       /\ \A o \in olds : n.version = o.version + 1
                 /\ \A q \in Queries, f \in Filters :
                       LET hs == SearchKnowledgeHits(store', last'.tenant, q,
                                                     DefaultLimit, f)
                       IN  \A k \in 1..Len(hs) :
                              SameIdentity(RowOf(store', hs[k].chunk_id),
                                           last'.tenant, src, i)
                              => hs[k].text = text
      ]_vars

HitIds(hs) == {hs[i].chunk_id : i \in 1..Len(hs)}

Archived(rows) == {r \in rows : r.archived_at # NullTime}

NotArchivedBefore(snap) ==
    \A r \in snap.rows :
        SelMatches(r, snap.tenant, snap.sel) => r.archived_at = NullTime

\* C13 as claimed: archive(archived = false) right after
\* archive(archived = true) with the same selector returns the store to
\* what it was before the archiving.
ArchiveRoundTrip ==
    beforeArchive.undone => store = beforeArchive.rows

\* C13 as amended: an archive call removes or adds no chunk and changes
\* nothing of any chunk but archived_at, which it sets on the matching
\* chunks (archived = true) or clears (archived = false); and
\* archive(false) right after archive(true) with the same selector returns
\* the store to what it was before, when none of the selected chunks was
\* archived before.
ArchiveOnlyFlips ==
    [][ Answered("archive") =>
          LET sel == last'.args[1]
              arch == last'.args[2]
          IN  /\ Cardinality(store') = Cardinality(store)
              /\ \A r \in store :
                    \E r2 \in store' :
                       /\ r2 = [r EXCEPT !.archived_at = r2.archived_at]
                       /\ IF SelMatches(r, last'.tenant, sel)
                          THEN r2.archived_at = IF arch THEN now' ELSE NullTime
                          ELSE r2 = r
              /\ (beforeArchive'.undone /\ NotArchivedBefore(beforeArchive'))
                    => store' = beforeArchive'.rows
      ]_vars

\* a chunk has been archived and un-archived again, and the store is what
\* it was before
ArchiveRoundTripWitness ==
    /\ beforeArchive.undone /\ NotArchivedBefore(beforeArchive)
    /\ last.op = "archive" /\ last.count >= 1
    /\ store = beforeArchive.rows

\* C14: a delete call is answered as a success with the number of chunks
\* it removed and removes exactly the chunks its selector matches; when the
\* ids it names are absent (never created, or deleted before, also by the
\* same call made just before) it answers deleted = 0 and leaves the store
\* as it was.
DeleteIdempotent ==
    [][ Answered("delete") =>
          LET sel == last'.args[1]
              matched == {r \in store : SelMatches(r, last'.tenant, sel)}
          IN  /\ last'.status = "ok"
              /\ last'.count = Cardinality(matched)
              /\ store' = store \ matched
              /\ (sel.kind = "ids" /\ \A r \in store : r.id \notin sel.ids)
                    => (last'.count = 0 /\ store' = store)
              /\ (last.op = "delete" /\ last.tenant = last'.tenant
                                     /\ last.args = last'.args)
                    => (last'.count = 0 /\ store' = store)
      ]_vars

\* a delete of an id that was created and has been deleted before is
\* answered deleted = 0 while other chunks are stored
DeleteAbsentWitness ==
    /\ last.op = "delete" /\ last.status = "ok" /\ last.count = 0
    /\ last.args[1].kind = "ids"
    /\ \E i \in last.args[1].ids :
          i < nextId /\ \A r \in store : r.id # i
    /\ store # {}

\* rows the upsert path has stored without an embedding
Pending(rows) == {r \in rows : r.embedding_vector = NoVector}

\* C15: an upsert for a known tenant stores the text of every chunk of the
\* request whether or not its embedding could be computed; a chunk it
\* stored without embedding is flagged embedding_pending; and no search
\* returns a chunk without embedding, with any query and filter.
PendingNeverMatched ==
    [][ /\ (Answered("upsert") /\ last'.tenant \in tenants) =>
              /\ last'.status = "ok"
              /\ \A i \in 1..Len(last'.args[2]) :
                    HashTaken(store', last'.tenant,
                              ContentHash(last'.args[2][i]))
        /\ \A r \in store' :
              r.pos > 0 => r.embedding_pending = (r.embedding_vector = NoVector)
        /\ last'.op = "search" =>
              \A x \in Pending(store') : x.id \notin HitIds(last'.hits)
        /\ last'.op # "search" =>
              \A q \in Queries, f \in Filters :
                 \A x \in Pending(store') :
                    x.id \notin HitIds(SearchKnowledgeHits(store', DefaultTenant,
                                                          q, DefaultLimit, f))
      ]_vars

\* what holds of chunks without embedding: no search returns one, with any
\* query and filter, until a reindex call has embedded it
NoVectorNeverMatched ==
    /\ last.op = "search" =>
          \A x \in Pending(store) : x.id \notin HitIds(last.hits)
    /\ last.op # "search" =>
          \A q \in Queries, f \in Filters :
             \A x \in Pending(store) :
                x.id \notin HitIds(SearchKnowledgeHits(store, DefaultTenant,
                                                      q, DefaultLimit, f))

\* C20: an upsert for a tenant that is not in the tenant directory is
\* answered with an error, counts nothing as created or updated, and leaves
\* the store as it was: no chunk is stored for that tenant or any other.
UnknownTenantRejected ==
    [][ (Answered("upsert") /\ last'.tenant \notin tenants) =>
            /\ last'.status = "error"
            /\ last'.created = 0 /\ last'.updated = 0
            /\ store' = store
            /\ nextId' = nextId
            /\ \A r \in store' : r.tenant_id \in tenants
      ]_vars

\* an upsert for a tenant outside the directory has been answered while the
\* store already held chunks of a known tenant
UnknownTenantWitness ==
    /\ last.op = "upsert"
    /\ last.tenant \notin tenants
    /\ last.status = "error"
    /\ \E r \in store : r.tenant_id \in tenants /\ r.pos > 0

\* C19: a search returns its hits by descending similarity, equal
\* similarities by more recent updated_at first, then by lower id; and the
\* same search made again on the same chunks returns the same hits in the
\* same order.
RankingDeterministic ==
    [][ last'.op = "search" =>
          /\ last'.hits = SearchKnowledgeHits(store', last'.tenant,
                              last'.args[1], last'.args[2], last'.args[3])
          /\ (last.op = "search" /\ last.tenant = last'.tenant
                                 /\ last.args = last'.args)
                => last'.hits = last.hits
      ]_vars

\* what the documented query does guarantee: the hits are the candidates,
\* by descending similarity
RankedBySimilarity ==
    last.op = "search" =>
       /\ HitIds(last.hits) = HitIds(SearchKnowledgeHits(store, last.tenant,
                                  last.args[1], last.args[2], last.args[3]))
       /\ \A i \in 1..(Len(last.hits) - 1) :
             last.hits[i].similarity >= last.hits[i + 1].similarity

-----------------------------------------------------------------------------
(* Properties of the ui auth store and request() *)

\* a call of request() receives its response in this step
Responds(f, status) ==
    /\ fetches[f].pc = "sent" /\ fetches'[f].pc = "idle"
    /\ uiLast' = UiEvent("response", status)

\* a call of request() sends its fetch in this step
Sends(f) == fetches[f].pc = "idle" /\ fetches'[f].pc = "sent"

\* C21: a 401 response handled by request() leaves the token null in the
\* store and removed from localStorage; while both are so, only setToken
\* changes either; and a request sent while the store holds no token
\* carries no Authorization header.
UnauthorizedResets ==
    [][ /\ \A f \in Fetchers :
              Responds(f, 401) =>
                 useAuth'.token = Null /\ uiStorage'.token = Null
        /\ ( /\ useAuth.token = Null /\ uiStorage.token = Null
             /\ uiLast'.op # "setToken" )
           => (useAuth'.token = Null /\ uiStorage'.token = Null)
        /\ \A f \in Fetchers :
              (Sends(f) /\ useAuth.token = Null) =>
                 fetches'[f].authorization = Null
      ]_vars

\* a request got 401 and the page was logged out by it, while another
\* request sent with the token is still in flight
UnauthorizedResetsWitness ==
    /\ uiLast = UiEvent("response", 401)
    /\ useAuth.token = Null /\ uiStorage.token = Null
    /\ \E f \in Fetchers :
          fetches[f].pc = "sent" /\ fetches[f].authorization \in UiTokens

\* C22: once logout has been called, the API base in effect is the
\* environment default until setApiBase is called again, whatever reloads
\* and logouts happen in between.
LogoutResetsApiBase == loggedOut => useAuth.apiBase = defaultApiBase

\* what logout does give: the API base in effect is the default until the
\* page is loaded again
LogoutResetsApiBaseUntilReload ==
    [][ (uiLast'.op = "logout" => useAuth'.apiBase = defaultApiBase)
        /\ ( /\ loggedOut /\ useAuth.apiBase = defaultApiBase
             /\ uiLast'.op \notin {"reload", "setApiBase"} )
           => useAuth'.apiBase = defaultApiBase
      ]_vars

-----------------------------------------------------------------------------
(* Properties of the useWebSocket hook *)

\* C23: after disconnect() no new WebSocket is created by the hook unless
\* reconnect() is called: neither the close event of the socket being
\* closed nor a pending timer leads to another connect().
DisconnectIsFinal ==
    [][ (disconnected /\ disconnected') =>
            Created(sockets') = Created(sockets) ]_vars

\* C24: the timers never make more than reconnectAttempts connect() calls
\* in a row without a socket opening; the attempt counter goes down only
\* when a socket opens, and then to 0; and once the counter is at the limit
\* no timer is set until a socket opens.
ReconnectsBounded ==
    /\ [](autoConnects <= reconnectAttempts)
    /\ [](reconnectCountRef <= reconnectAttempts)
    /\ [][ /\ reconnectCountRef' < reconnectCountRef =>
                 ( /\ reconnectCountRef' = 0
                   /\ \E k \in SocketIds :
                         sockets[k] = "connecting" /\ sockets'[k] = "open" )
           /\ reconnectCountRef = reconnectAttempts =>
                 (timers' \subseteq timers /\ nextTimer' = nextTimer)
         ]_vars

\* what the counter does give: timers set since a socket last opened are
\* never more than reconnectAttempts, the counter goes down only when a
\* socket opens, and at the limit no timer is set
ReconnectCounterBounded ==
    /\ [](reconnectCountRef <= reconnectAttempts)
    /\ [][ /\ reconnectCountRef' < reconnectCountRef =>
                 ( /\ reconnectCountRef' = 0
                   /\ \E k \in SocketIds :
                         sockets[k] = "connecting" /\ sockets'[k] = "open" )
           /\ reconnectCountRef = reconnectAttempts =>
                 (timers' \subseteq timers /\ nextTimer' = nextTimer)
         ]_vars

-----------------------------------------------------------------------------
(* Properties of the axios client and the AuthProvider *)

\* nothing of the page is in flight and no navigation is pending
AtRest == ~navigating /\ \A k \in Slots : ~InFlight(requests[k])

\* requests waiting for the answer to POST /v1/auth/refresh
Refreshing == {k \in Slots : requests[k].pc = "refreshing"}

\* C25: for one request the interceptor makes at most one refresh call and
\* sends the request again at most once; a request that was sent again and
\* is answered 401 is rejected without another refresh.
RefreshesOnce ==
    \A k \in Slots :
       /\ requests[k].refreshes <= 1
       /\ requests[k].retries <= 1
       /\ requests[k].retries = 1 => requests[k].pc # "refreshing"

\* a request was answered 401, the token was refreshed, the request was
\* sent again, answered 401 again and rejected
RefreshesOnceWitness ==
    \E k \in Components :
       /\ requests[k].pc = "rejected" /\ requests[k].status = 401
       /\ requests[k].refreshes = 1 /\ requests[k].retries = 1
       /\ localStorage.access_token \notin validAccess \cup {NoToken}
       /\ ~navigating

\* C26: when the interceptor gives up on a 401 it sends the browser to
\* /login; when the refresh call failed both tokens are removed at once;
\* and once the page is at rest after it, neither token is stored, unless a
\* login has stored tokens since.
UnrecoveredEndsLoggedOut ==
    /\ [](unrecovered /\ AtRest => localStorage = NoTokens)
    /\ [][ /\ \A k \in Slots :
                (/\ requests[k].pc = "sent" /\ ~requests[k].retry
                 /\ requests'[k].pc = "rejected"
                 /\ requests'[k].status = 401)
                   => navigating'
           /\ \A k \in Slots :
                (requests[k].pc = "refreshing" /\ requests'[k].pc = "rejected")
                   => (localStorage' = NoTokens /\ navigating')
         ]_vars

\* what the interceptor does give: every 401 it gives up on sends the
\* browser to /login, and a failed refresh call removes both tokens at once
GivingUpRedirects ==
    [][ \A k \in Slots :
          /\ ( /\ requests[k].pc = "sent" /\ ~requests[k].retry
               /\ requests'[k].pc = "rejected"
               /\ requests'[k].status = 401 )
             => navigating'
          /\ (requests[k].pc = "refreshing" /\ requests'[k].pc = "rejected")
             => (localStorage' = NoTokens /\ navigating')
      ]_vars

\* C27: at most one POST /v1/auth/refresh is in flight at any time.
SingleRefresh == Cardinality(Refreshing) <= 1

\* C28: when login() has rejected, neither token the login call returned is
\* in localStorage.
RejectedLoginLeavesNoToken ==
    authProvider.login = "rejected" =>
        /\ authProvider.attempt.access_token # NoToken =>
              localStorage.access_token # authProvider.attempt.access_token
        /\ authProvider.attempt.refresh_token # NoToken =>
              localStorage.refresh_token # authProvider.attempt.refresh_token

-----------------------------------------------------------------------------
(* Properties of the generation forms *)

\* C29: each of Chat, Playground and TicketDetail has at most one agent
\* generation request in flight, and a submit made while one is pending is
\* ignored.
OneGenerationInFlight ==
    /\ [](\A c \in GenComponents : forms[c].pending <= 1)
    /\ [][ \A c \in GenComponents :
             (forms[c].pending = 1 /\ forms'[c].last # forms[c].last)
                => (forms'[c].last = "ignored" /\ forms'[c].pending <= 1)
         ]_vars

\* every component has a request in flight and has ignored a submit made
\* meanwhile
OneGenerationInFlightWitness ==
    \A c \in GenComponents :
       forms[c].pending = 1 /\ forms[c].last = "ignored"

-----------------------------------------------------------------------------
(* Properties of the agent orchestrator *)

Running == pc \in {"Embedding", "Retrieving", "Composing", "Generating", "Deciding"}

RefundQuery == <<"R", "e", "f", "u", "n", "d", " ", "a">>

EmptyKb(tenant) == \A r \in store : r.tenant_id # tenant

GenerationFailureEscalates ==
    [][ /\ (pc = "Generating" /\ pc' # "Generating" /\ content' = NullContent)
           => (pc' = "Deciding" /\ attempts = GenRetries)
        /\ (pc = "Deciding" /\ content = NullContent /\ pc' # "Deciding")
           => ( /\ pc' = "Done"
                /\ result'.content = NullContent
                /\ result'.escalate
                /\ result'.escalation_reason.code = "generation_failed" )
      ]_vars

GenerationFailureWitness ==
    /\ pc = "Done" /\ content = NullContent /\ attempts = GenRetries
    /\ result.escalation_reason.code = "generation_failed"

\* C4 as claimed: on an empty knowledge base a query without trigger term
\* always ends with escalate = true and reason low_confidence.
EmptyKbAlwaysLowConfidence ==
    (pc = "Done" /\ EmptyKb(req.tenant) /\ req.query \in {<<"a">>, <<"z">>})
    => (result.escalate /\ result.escalation_reason.code = "low_confidence")

\* C4 as amended: on an empty knowledge base such a query always ends with
\* escalate = true; the reason is low_confidence when generation succeeded
\* and the answer holds no trigger term, generation_failed when it failed.
EmptyKbEscalates ==
    (pc = "Done" /\ EmptyKb(req.tenant) /\ req.query \in {<<"a">>, <<"z">>})
    => /\ result.escalate
       /\ content = <<"o", "k">>
            => result.escalation_reason.code = "low_confidence"
       /\ content = NullContent
            => result.escalation_reason.code = "generation_failed"

EmptyKbWitness ==
    /\ pc = "Done" /\ EmptyKb(req.tenant) /\ req.query = <<"z">>
    /\ qvec # NoVector /\ content = <<"o", "k">>
    /\ result.escalation_reason.code = "low_confidence"

\* C5: a query containing a trigger term, in any letter case, ends with
\* escalate = true whatever was retrieved.
TriggerAlwaysEscalates ==
    (pc = "Done" /\ (req.query = RefundQuery
                     \/ \E t \in TriggerTerms : Contains(req.query, t)))
    => result.escalate

\* the trigger query is Done with a generated answer and a best hit at or
\* above the confidence floor
TriggerWitness ==
    /\ pc = "Done" /\ req.query = RefundQuery /\ content = <<"o", "k">>
    /\ Len(hits) > 0 /\ hits[1].score >= 50
    /\ result.escalate

\* C6: the content generation produced is the content of the AgentResult and
\* the content the chat shows, with and without escalation.
ContentNeverWithheld ==
    [][ /\ (pc = "Deciding" /\ pc' = "Done") => result'.content = content
        /\ (pc = "Done" /\ pc' = "Idle")
           => (chat'.content = content /\ ~chat'.error)
      ]_vars

\* the chat shows a generated answer together with an escalation
ContentWitness ==
    /\ pc = "Idle" /\ chat.content \in Answers
    /\ chat.escalated.code = "low_confidence"

\* C7: the reason of an escalated result is low_confidence,
\* generation_failed or trigger_keyword:<term> with a configured term.
ReasonIsClosedCode ==
    (pc = "Done" /\ result.escalate)
    => LET r == result.escalation_reason
       IN  \/ r.code \in {"low_confidence", "generation_failed"} /\ r.term = <<>>
           \/ r.code = "trigger_keyword" /\ r.term \in TriggerTerms

\* C18: when the embedding of the query fails the orchestrator goes from
\* Embedding to Composing with zero hits, skipping retrieval; from there it
\* composes with no context and goes on to Generating.
EmbeddingFailureDegrades ==
    [][ /\ (pc = "Embedding" /\ pc' # "Embedding" /\ qvec' = NoVector)
           => (pc' = "Composing" /\ hits' = <<>>)
        /\ (pc = "Composing" /\ qvec = NoVector /\ pc' # "Composing")
           => (pc' = "Generating" /\ hits = <<>> /\ used' = <<>>)
        /\ (pc = "Generating" /\ qvec = NoVector /\ pc' = "Deciding")
           => content' \in Answers \cup {NullContent}
      ]_vars

\* a request whose embedding failed is Done with a generated answer, while
\* the tenant holds a chunk a successful retrieval would have returned
EmbeddingFailureWitness ==
    /\ pc = "Done" /\ qvec = NoVector /\ hits = <<>>
    /\ content \in Answers /\ result.content = content
    /\ Search(store, req.tenant, EmbedVector(req.query), DefaultLimit,
              NoFilter) # <<>>

-----------------------------------------------------------------------------
(* Properties of concurrent upserts *)

\* two writers whose requests carry the same content, both arrived while
\* the tenant held no current chunk with that content hash, and both have
\* finished
SameContent(w1, w2) ==
    /\ w1 # w2
    /\ writers[w1].pc = "done" /\ writers[w2].pc = "done"
    /\ ContentHash(writers[w1].text) = ContentHash(writers[w2].text)
    /\ writers[w1].fresh /\ writers[w2].fresh

OneInsertOneSkip(w1, w2) ==
    LET a == writers[w1]
        b == writers[w2]
    IN  /\ a.status = "ok" /\ b.status = "ok"
        /\ a.created + a.updated + b.created + b.updated = 1
        /\ a.skipped + b.skipped = 1
        /\ Cardinality({r \in store :
                /\ r.tenant_id = a.tenant
                /\ r.chunk_hash = ContentHash(a.text)
                /\ r.is_current}) = 1

\* C11: when two writers concurrently upsert the same content for a tenant
\* that holds no current chunk with it, under every interleaving exactly
\* one insert succeeds, the other writer gets skipped = 1 and no error, and
\* exactly one current chunk with that content hash exists afterwards.
OneWriterWins ==
    \A w1, w2 \in Writers : SameContent(w1, w2) => OneInsertOneSkip(w1, w2)

\* the same for content the tenant has never stored, not even in a
\* superseded version
OneWriterWinsOnNovelContent ==
    \A w1, w2 \in Writers :
        (SameContent(w1, w2) /\ writers[w1].novel /\ writers[w2].novel)
        => OneInsertOneSkip(w1, w2)

\* both writers decided to create before either wrote, and the second
\* one's insert hit the uniqueness constraint
BothCreateOneSkipped ==
    /\ SameContent(1, 2)
    /\ writers[1].plan = "create" /\ writers[2].plan = "create"
    /\ writers[1].created = 1 /\ writers[2].skipped = 1

-----------------------------------------------------------------------------
(* Properties of the circuit breaker *)

\* the last FailureThreshold backend calls all failed, within the window
FailedInARow(b) ==
    /\ Len(b.recent) = FailureThreshold
    /\ \A i \in 1..Len(b.recent) : ~b.recent[i].ok
    /\ b.recent[Len(b.recent)].at - b.recent[1].at <= FailureWindow

BreakerMoves ==
    { <<"closed", "open">>, <<"open", "half_open">>,
      <<"half_open", "closed">>, <<"half_open", "open">> }

\* C16: once the last N backend calls have all failed within the window
\* the breaker is not closed; a generate call that arrives while the
\* breaker is open and the cooldown has not elapsed fails fast, without a
\* call to the backend and without changing the breaker; and the state
\* changes only along closed -> open -> half-open -> (closed or open).
BreakerFailsFast ==
    /\ [](FailedInARow(breaker) => breaker.state # "closed")
    /\ [][ /\ \A c \in Callers :
                ( /\ calls[c].pc = "idle" /\ calls'[c].pc # "idle"
                  /\ breaker.state = "open"
                  /\ clock - breaker.opened_at < Cooldown )
                => ( /\ calls'[c].pc = "done"
                     /\ calls'[c].outcome = "rejected"
                     /\ breaker' = breaker )
            /\ \/ breaker'.state = breaker.state
               \/ <<breaker.state, breaker'.state>> \in BreakerMoves
       ]_vars

\* a call has failed fast on the breaker that two failures in a row opened
BreakerFailsFastWitness ==
    /\ breaker.state = "open" /\ FailedInARow(breaker)
    /\ clock - breaker.opened_at < Cooldown
    /\ \E c \in Callers : calls[c].outcome = "rejected"

ProbesInFlight == {c \in Callers : calls[c].pc = "calling" /\ calls[c].probe}

\* C17: at most one call is in flight as the probe, the breaker is
\* half-open exactly while it is, and every generate call that arrives
\* while the breaker is half-open fails fast.
SingleProbe ==
    /\ [](Cardinality(ProbesInFlight) <= 1)
    /\ [](breaker.state = "half_open" <=> ProbesInFlight # {})
    /\ [][ \A c \in Callers :
              ( /\ calls[c].pc = "idle" /\ calls'[c].pc # "idle"
                /\ breaker.state = "half_open" )
              => (calls'[c].pc = "done" /\ calls'[c].outcome = "rejected")
       ]_vars

\* one call is the probe of the half-open breaker and the other one, which
\* arrived meanwhile, has failed fast
SingleProbeWitness ==
    /\ breaker.state = "half_open"
    /\ calls[1].pc = "calling" /\ calls[1].probe
    /\ calls[2].pc = "done" /\ calls[2].outcome = "rejected"

====
